---- MODULE Spec2Model ----
(***************************************************************************)
(* Tagged URNs (package taggedurn): a prefix plus a flat key -> value tag  *)
(* map, with a tokenizer, a canonical serializer, a per-tag matching       *)
(* engine, graded specificity, compatibility and a best-match selector.    *)
(*                                                                         *)
(* Strings are sequences of one-character strings, so that lowercasing,    *)
(* quoting, escaping, sorting and tokenizing are computed character by     *)
(* character as the Go code does.  A TaggedUrn is a record                 *)
(* [prefix, tags] whose tags field is a function from keys to values.      *)
(***************************************************************************)
EXTENDS Integers, Sequences, FiniteSets

VARIABLES
    urnA, urnB,        \* the receiver and the argument of a pairwise operation
    urns, request,     \* the candidate list and the request of a selector call
    input,             \* the string handed to NewTaggedUrnFromString
    op, result,        \* the operation called, and what it returned
    urns2,             \* the second list of an AreCompatible call
    heap,              \* the maps allocated so far; an address is an index
    objs,              \* the TaggedUrn structs allocated so far
    builder,           \* the TaggedUrnBuilder of the caller, or nil
    owned,             \* the addresses of the maps the caller holds
    scan               \* the locals of a NewTaggedUrnFromString call in progress

\* the variables of the reference-level specification
heapVars == <<heap, objs, builder, owned>>

vars ==
    <<urnA, urnB, urns, request, input, op, result, urns2, heap, objs, builder, owned,
      scan>>

\* no NewTaggedUrnFromString call is in progress
NotScanning == <<>>

(***************************************************************************)
(* Characters                                                              *)
(***************************************************************************)
LowerLetters == {"a", "b", "p", "q", "v", "w"}

UpperLetters == {"A", "B", "P", "V"}

Digits == {"1"}

\* unicode.ToLower on the characters of the model's alphabet
ToLowerRune(c) ==
    CASE c = "A" -> "a"
      [] c = "B" -> "b"
      [] c = "P" -> "p"
      [] c = "V" -> "v"
      [] OTHER -> c

\* strings.ToLower
ToLower(s) == [i \in 1..Len(s) |-> ToLowerRune(s[i])]

IsLetter(c) == c \in LowerLetters \cup UpperLetters

IsDigit(c) == c \in Digits

IsUpper(c) == c \in UpperLetters

isValidKeyChar(c) ==
    IsLetter(c) \/ IsDigit(c) \/ c = "_" \/ c = "-" \/ c = "/" \/ c = ":" \/ c = "."

isValidUnquotedValueChar(c) ==
    \/ IsLetter(c) \/ IsDigit(c)
    \/ c = "_" \/ c = "-" \/ c = "/" \/ c = ":" \/ c = "."
    \/ c = "*" \/ c = "?" \/ c = "!"

(***************************************************************************)
(* Error codes                                                             *)
(***************************************************************************)
NoError == 0
ErrorInvalidFormat == 1
ErrorEmptyTag == 2
ErrorInvalidCharacter == 3
ErrorInvalidTagFormat == 4
ErrorMissingPrefix == 5
ErrorDuplicateKey == 6
ErrorNumericKey == 7
ErrorUnterminatedQuote == 8
ErrorInvalidEscapeSequence == 9
ErrorEmptyPrefix == 10
ErrorPrefixMismatch == 11

(***************************************************************************)
(* The data model                                                          *)
(***************************************************************************)
\* a nil *TaggedUrn
NilUrn == [isNil |-> TRUE]

IsNil(u) == "isNil" \in DOMAIN u

\* &TaggedUrn{prefix: prefix, tags: tags}
TaggedUrn(prefix, tags) == [prefix |-> prefix, tags |-> tags]

\* an empty map[string]string
EmptyTags == [k \in {} |-> <<>>]

\* a *string that is nil (<<>>) or points at the value stored under key
TagPtr(tags, key) == IF key \in DOMAIN tags THEN <<tags[key]>> ELSE <<>>

Star == <<"*">>
Bang == <<"!">>
Quest == <<"?">>

\* Empty(prefix)
Empty(prefix) == TaggedUrn(ToLower(prefix), EmptyTags)

\* NewTaggedUrnFromTags(prefix, tags): the set of URNs the call can return.
\* Two keys of the argument that lowercase to the same key are written in map
\* iteration order, which is unspecified, so either value can be the one kept.
NewTaggedUrnFromTags(prefix, tags) ==
    LET lowered == {ToLower(k) : k \in DOMAIN tags}
        sources(lk) == {k \in DOMAIN tags : ToLower(k) = lk}
    IN  {TaggedUrn(ToLower(prefix), [lk \in lowered |-> tags[pick[lk]]]) :
            pick \in {f \in [lowered -> DOMAIN tags] :
                        \A lk \in lowered : f[lk] \in sources(lk)}}

(***************************************************************************)
(* Matching engine                                                         *)
(***************************************************************************)
\* valuesMatch without the instance-wildcard case: an instance '*' is compared
\* with an exact pattern value as if it were a literal
valuesMatchLiteralStar(inst, patt) ==
    IF patt = <<>> \/ patt = <<Quest>> THEN TRUE
    ELSE IF inst # <<>> /\ inst = <<Quest>> THEN TRUE
    ELSE IF patt = <<Bang>> THEN inst = <<>> \/ inst = <<Bang>>
    ELSE IF inst # <<>> /\ inst = <<Bang>> THEN FALSE
    ELSE IF patt = <<Star>> THEN inst # <<>>
    ELSE IF inst = <<>> THEN FALSE
    ELSE inst[1] = patt[1]

\* valuesMatch without the test of an instance '!' against a pattern that
\* wants the tag present
valuesMatchBangPresent(inst, patt) ==
    IF patt = <<>> \/ patt = <<Quest>> THEN TRUE
    ELSE IF inst # <<>> /\ inst = <<Quest>> THEN TRUE
    ELSE IF patt = <<Bang>> THEN inst = <<>> \/ inst = <<Bang>>
    ELSE IF patt = <<Star>> THEN inst # <<>>
    ELSE IF inst = <<>> THEN FALSE
    ELSE IF inst = <<Star>> THEN TRUE
    ELSE inst[1] = patt[1]

valuesMatch(inst, patt) ==
    IF patt = <<>> \/ patt = <<Quest>> THEN TRUE
    ELSE IF inst # <<>> /\ inst = <<Quest>> THEN TRUE
    ELSE IF patt = <<Bang>> THEN
        IF inst = <<>> THEN TRUE
        ELSE IF inst = <<Bang>> THEN TRUE
        ELSE FALSE
    ELSE IF inst # <<>> /\ inst = <<Bang>> THEN FALSE
    ELSE IF patt = <<Star>> THEN
        IF inst = <<>> THEN FALSE ELSE TRUE
    ELSE IF inst = <<>> THEN FALSE
    ELSE IF inst = <<Star>> THEN TRUE
    ELSE inst[1] = patt[1]

\* the (bool, error) pair of a call
Ret(val, err) == [val |-> val, err |-> err]

Matches(c, pattern) ==
    IF IsNil(pattern) THEN Ret(FALSE, ErrorInvalidFormat)
    ELSE IF c.prefix # pattern.prefix THEN Ret(FALSE, ErrorPrefixMismatch)
    ELSE LET allKeys == DOMAIN c.tags \cup DOMAIN pattern.tags
         IN  Ret(\A key \in allKeys :
                    valuesMatch(TagPtr(c.tags, key), TagPtr(pattern.tags, key)),
                 NoError)

CanHandle(c, req) == Matches(c, req)

(***************************************************************************)
(* Specificity                                                             *)
(***************************************************************************)
\* ValueScore with must-not-have scored like must-have-any
ValueScoreBangAsStar(value) ==
    CASE value = Quest -> 0
      [] value = Bang -> 2
      [] value = Star -> 2
      [] OTHER -> 3

\* the switch of Specificity: the score one stored value adds
ValueScore(value) ==
    CASE value = Quest -> 0
      [] value = Bang -> 1
      [] value = Star -> 2
      [] OTHER -> 3

RECURSIVE SumScores(_, _)
SumScores(tags, keys) ==
    IF keys = {} THEN 0
    ELSE LET k == CHOOSE x \in keys : TRUE
         IN  ValueScore(tags[k]) + SumScores(tags, keys \ {k})

Specificity(c) == SumScores(c.tags, DOMAIN c.tags)

\* the switch of SpecificityTuple: which of the three counters a value bumps
ValueClass(value) ==
    CASE value = Quest -> <<0, 0, 0>>
      [] value = Bang -> <<0, 0, 1>>
      [] value = Star -> <<0, 1, 0>>
      [] OTHER -> <<1, 0, 0>>

RECURSIVE CountClasses(_, _)
CountClasses(tags, keys) ==
    IF keys = {} THEN <<0, 0, 0>>
    ELSE LET k == CHOOSE x \in keys : TRUE
             r == CountClasses(tags, keys \ {k})
             d == ValueClass(tags[k])
         IN  <<r[1] + d[1], r[2] + d[2], r[3] + d[3]>>

SpecificityTuple(c) == CountClasses(c.tags, DOMAIN c.tags)

(***************************************************************************)
(* Compatibility                                                           *)
(***************************************************************************)
\* valuesCompatible that looks for the wildcard on the left side only
valuesCompatibleLeftStar(v1, v2) ==
    IF v1 = <<>> \/ v2 = <<>> THEN TRUE
    ELSE IF v1 = <<Quest>> \/ v2 = <<Quest>> THEN TRUE
    ELSE IF v1 = <<Bang>> /\ v2 = <<Bang>> THEN TRUE
    ELSE IF v1 = <<Bang>> \/ v2 = <<Bang>> THEN FALSE
    ELSE IF v1 = <<Star>> THEN TRUE
    ELSE v1[1] = v2[1]

\* valuesCompatible without the must-not-have conflict: '!' against a value
\* or '*' falls through to the wildcard and equality tests
valuesCompatibleNoConflict(v1, v2) ==
    IF v1 = <<>> \/ v2 = <<>> THEN TRUE
    ELSE IF v1 = <<Quest>> \/ v2 = <<Quest>> THEN TRUE
    ELSE IF v1 = <<Bang>> /\ v2 = <<Bang>> THEN TRUE
    ELSE IF v1 = <<Star>> \/ v2 = <<Star>> THEN TRUE
    ELSE v1[1] = v2[1]

\* valuesCompatible without the wildcard cases: '*' is compared with the
\* other value as if it were a literal
valuesCompatibleLiteralStar(v1, v2) ==
    IF v1 = <<>> \/ v2 = <<>> THEN TRUE
    ELSE IF v1 = <<Quest>> \/ v2 = <<Quest>> THEN TRUE
    ELSE IF v1 = <<Bang>> /\ v2 = <<Bang>> THEN TRUE
    ELSE IF v1 = <<Bang>> \/ v2 = <<Bang>> THEN FALSE
    ELSE v1[1] = v2[1]

valuesCompatible(v1, v2) ==
    IF v1 = <<>> \/ v2 = <<>> THEN TRUE
    ELSE IF v1 = <<Quest>> \/ v2 = <<Quest>> THEN TRUE
    ELSE IF v1 = <<Bang>> /\ v2 = <<Bang>> THEN TRUE
    ELSE IF v1 = <<Bang>> \/ v2 = <<Bang>> THEN FALSE
    ELSE IF v1 = <<Star>> /\ v2 = <<Star>> THEN TRUE
    ELSE IF v1 = <<Star>> \/ v2 = <<Star>> THEN TRUE
    ELSE v1[1] = v2[1]

IsCompatibleWith(c, other) ==
    IF IsNil(other) THEN Ret(FALSE, ErrorInvalidFormat)
    ELSE IF c.prefix # other.prefix THEN Ret(FALSE, ErrorPrefixMismatch)
    ELSE LET allKeys == DOMAIN c.tags \cup DOMAIN other.tags
         IN  Ret(\A key \in allKeys :
                    valuesCompatible(TagPtr(c.tags, key), TagPtr(other.tags, key)),
                 NoError)

\* IsMoreSpecificThan without the compatibility test
IsMoreSpecificThanAnyPair(c, other) ==
    IF IsNil(other) THEN Ret(FALSE, ErrorInvalidFormat)
    ELSE IF c.prefix # other.prefix THEN Ret(FALSE, ErrorPrefixMismatch)
    ELSE Ret(Specificity(c) > Specificity(other), NoError)

IsMoreSpecificThan(c, other) ==
    IF IsNil(other) THEN Ret(FALSE, ErrorInvalidFormat)
    ELSE IF c.prefix # other.prefix THEN Ret(FALSE, ErrorPrefixMismatch)
    ELSE LET compatible == IsCompatibleWith(c, other)
         IN  IF compatible.err # NoError THEN Ret(FALSE, compatible.err)
             ELSE IF ~compatible.val THEN Ret(FALSE, NoError)
             ELSE Ret(Specificity(c) > Specificity(other), NoError)

(***************************************************************************)
(* Merge                                                                   *)
(***************************************************************************)
\* Merge without the prefix comparison
MergeAnyPrefix(c, other) ==
    IF IsNil(other) THEN Ret(NilUrn, ErrorInvalidFormat)
    ELSE Ret(TaggedUrn(c.prefix,
                       [k \in DOMAIN c.tags \cup DOMAIN other.tags |->
                            IF k \in DOMAIN other.tags THEN other.tags[k]
                            ELSE c.tags[k]]),
             NoError)

\* Merge in which the receiver's value is kept on a conflict
MergeReceiverWins(c, other) ==
    IF IsNil(other) THEN Ret(NilUrn, ErrorInvalidFormat)
    ELSE IF c.prefix # other.prefix THEN Ret(NilUrn, ErrorPrefixMismatch)
    ELSE Ret(TaggedUrn(c.prefix,
                       [k \in DOMAIN c.tags \cup DOMAIN other.tags |->
                            IF k \in DOMAIN c.tags THEN c.tags[k]
                            ELSE other.tags[k]]),
             NoError)

Merge(c, other) ==
    IF IsNil(other) THEN Ret(NilUrn, ErrorInvalidFormat)
    ELSE IF c.prefix # other.prefix THEN Ret(NilUrn, ErrorPrefixMismatch)
    ELSE Ret(TaggedUrn(c.prefix,
                       [k \in DOMAIN c.tags \cup DOMAIN other.tags |->
                            IF k \in DOMAIN other.tags THEN other.tags[k]
                            ELSE c.tags[k]]),
             NoError)

(***************************************************************************)
(* Specification Spec: the operations on a pair of URNs.  Both URNs are    *)
(* built by NewTaggedUrnFromTags from bounded arguments; each action calls *)
(* one operation on them and records what it returned.                     *)
(***************************************************************************)
PrefixArgs == {<<"p">>, <<"P">>, <<"q">>}

KeyArgs == {<<"a">>, <<"B">>}

ValueArgs == {Star, Quest, Bang, <<"v">>, <<"w">>, <<"v", "*">>}

TagArgs == UNION {[ks -> ValueArgs] : ks \in SUBSET KeyArgs}

BuiltUrns == UNION {NewTaggedUrnFromTags(p, t) : p \in PrefixArgs, t \in TagArgs}

NoResult == Ret(FALSE, NoError)

Init ==
    /\ urnA \in BuiltUrns
    /\ urnB \in BuiltUrns \cup {NilUrn}
    /\ urns = <<>>
    /\ request = NilUrn
    /\ input = <<>>
    /\ urns2 = <<>>
    /\ heap = <<>>
    /\ objs = <<>>
    /\ builder = NilUrn
    /\ owned = {}
    /\ op = "new"
    /\ result = NoResult
    /\ scan = NotScanning

Call(name, ret) ==
    /\ op = "new"
    /\ op' = name
    /\ result' = ret
    /\ UNCHANGED <<urnA, urnB, urns, request, input, urns2, heapVars, scan>>

DoMatches == Call("Matches", Matches(urnA, urnB))

DoIsCompatibleWith == Call("IsCompatibleWith", IsCompatibleWith(urnA, urnB))

DoIsMoreSpecificThan == Call("IsMoreSpecificThan", IsMoreSpecificThan(urnA, urnB))

DoMerge == Call("Merge", Merge(urnA, urnB))

DoSpecificity == Call("Specificity", Ret(Specificity(urnA), NoError))

DoSpecificityTuple == Call("SpecificityTuple", Ret(SpecificityTuple(urnA), NoError))

Next ==
    \/ DoMatches
    \/ DoIsCompatibleWith
    \/ DoIsMoreSpecificThan
    \/ DoMerge
    \/ DoSpecificity
    \/ DoSpecificityTuple

Spec == Init /\ [][Next]_vars

(***************************************************************************)
(* Grammar / tokenizer                                                     *)
(***************************************************************************)
\* parseState
stateExpectingKey == "ExpectingKey"
stateInKey == "InKey"
stateExpectingValue == "ExpectingValue"
stateInUnquotedValue == "InUnquotedValue"
stateInQuotedValue == "InQuotedValue"
stateInQuotedValueEscape == "InQuotedValueEscape"
stateExpectingSemiOrEnd == "ExpectingSemiOrEnd"

\* numericPattern.MatchString: ^[0-9]+$
numericPattern(key) == key # <<>> /\ \A i \in 1..Len(key) : IsDigit(key[i])

\* the locals of NewTaggedUrnFromString while it scans: err is the code of the
\* error it returned, NoError while it is still running
Scanner(tags) ==
    [state |-> stateExpectingKey, currentKey |-> <<>>, currentValue |-> <<>>,
     tags |-> tags, pos |-> 0, err |-> NoError]

Fail(ps, code) == [ps EXCEPT !.err = code]

\* tags[key] = value
SetTag(tags, key, value) ==
    [k \in DOMAIN tags \cup {key} |-> IF k = key THEN value ELSE tags[k]]

\* finishTag without the duplicate-key test: the later entry overwrites
finishTagOverwrite(ps) ==
    IF ps.currentKey = <<>> THEN Fail(ps, ErrorEmptyTag)
    ELSE IF ps.currentValue = <<>> THEN Fail(ps, ErrorEmptyTag)
    ELSE IF numericPattern(ps.currentKey) THEN Fail(ps, ErrorNumericKey)
    ELSE [ps EXCEPT !.tags = SetTag(ps.tags, ps.currentKey, ps.currentValue),
                    !.currentKey = <<>>,
                    !.currentValue = <<>>]

\* finishTag without the numeric-key test
finishTagAllowNumeric(ps) ==
    IF ps.currentKey = <<>> THEN Fail(ps, ErrorEmptyTag)
    ELSE IF ps.currentValue = <<>> THEN Fail(ps, ErrorEmptyTag)
    ELSE IF ps.currentKey \in DOMAIN ps.tags THEN Fail(ps, ErrorDuplicateKey)
    ELSE [ps EXCEPT !.tags = SetTag(ps.tags, ps.currentKey, ps.currentValue),
                    !.currentKey = <<>>,
                    !.currentValue = <<>>]

finishTag(ps) ==
    IF ps.currentKey = <<>> THEN Fail(ps, ErrorEmptyTag)
    ELSE IF ps.currentValue = <<>> THEN Fail(ps, ErrorEmptyTag)
    ELSE IF ps.currentKey \in DOMAIN ps.tags THEN Fail(ps, ErrorDuplicateKey)
    ELSE IF numericPattern(ps.currentKey) THEN Fail(ps, ErrorNumericKey)
    ELSE [ps EXCEPT !.tags = SetTag(ps.tags, ps.currentKey, ps.currentValue),
                    !.currentKey = <<>>,
                    !.currentValue = <<>>]

\* an iteration that moves two characters forward
AdvanceSkip(ps) == IF ps.err # NoError THEN ps ELSE [ps EXCEPT !.pos = ps.pos + 2]

\* pos++ at the end of an iteration that did not return
Advance(ps) == IF ps.err # NoError THEN ps ELSE [ps EXCEPT !.pos = ps.pos + 1]

\* the unquoted-value write with the case of c kept
WriteUnquotedKeepCase(value, c) == Append(value, c)

\* currentValue.WriteRune(unicode.ToLower(c)) in an unquoted value
WriteUnquoted(value, c) == Append(value, ToLowerRune(c))

\* an escape test that lets every character follow the backslash
EscapedCharAny(c) == TRUE

\* c == '"' || c == '\\' after a backslash in a quoted value
EscapedChar(c) == c = "\"" \/ c = "\\"

\* one iteration of the scanning loop on character c
ScanChar(ps, c) ==
    CASE ps.state = stateExpectingKey ->
            IF c = ";" THEN Advance(ps)
            ELSE IF isValidKeyChar(c)
                 THEN Advance([ps EXCEPT !.currentKey = Append(@, ToLowerRune(c)),
                                         !.state = stateInKey])
                 ELSE Fail(ps, ErrorInvalidCharacter)
      [] ps.state = stateInKey ->
            IF c = "=" THEN
                IF Len(ps.currentKey) = 0 THEN Fail(ps, ErrorEmptyTag)
                ELSE Advance([ps EXCEPT !.state = stateExpectingValue])
            ELSE IF c = ";" THEN
                IF Len(ps.currentKey) = 0 THEN Fail(ps, ErrorEmptyTag)
                ELSE Advance([finishTag([ps EXCEPT !.currentValue = @ \o Star])
                                EXCEPT !.state = stateExpectingKey])
            ELSE IF isValidKeyChar(c)
                 THEN Advance([ps EXCEPT !.currentKey = Append(@, ToLowerRune(c))])
                 ELSE Fail(ps, ErrorInvalidCharacter)
      [] ps.state = stateExpectingValue ->
            IF c = "\"" THEN Advance([ps EXCEPT !.state = stateInQuotedValue])
            ELSE IF c = ";" THEN Fail(ps, ErrorEmptyTag)
            ELSE IF isValidUnquotedValueChar(c)
                 THEN Advance([ps EXCEPT !.currentValue = WriteUnquoted(@, c),
                                         !.state = stateInUnquotedValue])
                 ELSE Fail(ps, ErrorInvalidCharacter)
      [] ps.state = stateInUnquotedValue ->
            IF c = ";"
            THEN Advance([finishTag(ps) EXCEPT !.state = stateExpectingKey])
            ELSE IF isValidUnquotedValueChar(c)
                 THEN Advance([ps EXCEPT !.currentValue = WriteUnquoted(@, c)])
                 ELSE Fail(ps, ErrorInvalidCharacter)
      [] ps.state = stateInQuotedValue ->
            IF c = "\"" THEN Advance([ps EXCEPT !.state = stateExpectingSemiOrEnd])
            ELSE IF c = "\\" THEN Advance([ps EXCEPT !.state = stateInQuotedValueEscape])
            ELSE Advance([ps EXCEPT !.currentValue = Append(@, c)])
      [] ps.state = stateInQuotedValueEscape ->
            IF EscapedChar(c)
            THEN Advance([ps EXCEPT !.currentValue = Append(@, c),
                                    !.state = stateInQuotedValue])
            ELSE Fail(ps, ErrorInvalidEscapeSequence)
      [] ps.state = stateExpectingSemiOrEnd ->
            IF c = ";"
            THEN Advance([finishTag(ps) EXCEPT !.state = stateExpectingKey])
            ELSE Fail(ps, ErrorInvalidCharacter)

\* an end-of-input switch that commits the pending tag of an open quoted value
ScanEndOpenQuote(ps) ==
    CASE ps.state \in {stateInUnquotedValue, stateExpectingSemiOrEnd,
                       stateInQuotedValue, stateInQuotedValueEscape} -> finishTag(ps)
      [] ps.state = stateExpectingKey -> ps
      [] ps.state = stateInKey -> finishTag([ps EXCEPT !.currentValue = @ \o Star])
      [] ps.state = stateExpectingValue -> Fail(ps, ErrorEmptyTag)

\* the switch after the loop: the scanner once the end of input is handled
ScanEnd(ps) ==
    CASE ps.state \in {stateInUnquotedValue, stateExpectingSemiOrEnd} -> finishTag(ps)
      [] ps.state = stateExpectingKey -> ps
      [] ps.state \in {stateInQuotedValue, stateInQuotedValueEscape} ->
            Fail(ps, ErrorUnterminatedQuote)
      [] ps.state = stateInKey ->
            IF Len(ps.currentKey) = 0 THEN Fail(ps, ErrorEmptyTag)
            ELSE finishTag([ps EXCEPT !.currentValue = @ \o Star])
      [] ps.state = stateExpectingValue -> Fail(ps, ErrorEmptyTag)

\* the scanning loop over chars, from the scanner ps on: the scanner when the
\* loop is left, by a return (err is set) or at the end of chars
RECURSIVE ScanLoop(_, _)
ScanLoop(ps, chars) ==
    IF ps.err # NoError \/ ps.pos >= Len(chars) THEN ps
    ELSE ScanLoop(ScanChar(ps, chars[ps.pos + 1]), chars)

\* the loop and the end-of-input switch
Scan(chars) ==
    LET ps == ScanLoop(Scanner(EmptyTags), chars)
    IN  IF ps.err # NoError THEN ps ELSE ScanEnd(ps)

\* the position of the last colon instead of the first
ColonPosLast(s) ==
    IF \E i \in 1..Len(s) : s[i] = ":"
    THEN CHOOSE i \in 1..Len(s) : s[i] = ":" /\ \A j \in (i + 1)..Len(s) : s[j] # ":"
    ELSE 0

\* strings.Index(s, ":") counted from 1; 0 when there is no colon
ColonPos(s) ==
    IF \E i \in 1..Len(s) : s[i] = ":"
    THEN CHOOSE i \in 1..Len(s) : s[i] = ":" /\ \A j \in 1..(i - 1) : s[j] # ":"
    ELSE 0

NewTaggedUrnFromString(s) ==
    IF s = <<>> THEN Ret(NilUrn, ErrorInvalidFormat)
    ELSE IF ColonPos(s) = 0 THEN Ret(NilUrn, ErrorMissingPrefix)
    ELSE IF ColonPos(s) = 1 THEN Ret(NilUrn, ErrorEmptyPrefix)
    ELSE LET prefix == ToLower(SubSeq(s, 1, ColonPos(s) - 1))
             tagsPart == SubSeq(s, ColonPos(s) + 1, Len(s))
         IN  IF tagsPart = <<>> \/ tagsPart = <<";">>
             THEN Ret(TaggedUrn(prefix, EmptyTags), NoError)
             ELSE LET ps == Scan(tagsPart)
                  IN  IF ps.err # NoError THEN Ret(NilUrn, ps.err)
                      ELSE Ret(TaggedUrn(prefix, ps.tags), NoError)

(***************************************************************************)
(* Canonical serializer                                                    *)
(***************************************************************************)
\* the code points of the characters of the model's alphabet
CharCode(c) ==
    CASE c = " " -> 32 [] c = "!" -> 33 [] c = "\"" -> 34 [] c = "*" -> 42
      [] c = "-" -> 45 [] c = "." -> 46 [] c = "/" -> 47 [] c = "1" -> 49
      [] c = ":" -> 58 [] c = ";" -> 59 [] c = "=" -> 61 [] c = "?" -> 63
      [] c = "@" -> 64 [] c = "A" -> 65 [] c = "B" -> 66 [] c = "P" -> 80
      [] c = "V" -> 86 [] c = "\\" -> 92 [] c = "_" -> 95 [] c = "a" -> 97
      [] c = "b" -> 98 [] c = "p" -> 112 [] c = "q" -> 113 [] c = "v" -> 118
      [] c = "w" -> 119

\* s < t as Go compares strings
RECURSIVE StringLess(_, _)
StringLess(s, t) ==
    IF t = <<>> THEN FALSE
    ELSE IF s = <<>> THEN TRUE
    ELSE IF Head(s) = Head(t) THEN StringLess(Tail(s), Tail(t))
    ELSE CharCode(Head(s)) < CharCode(Head(t))

\* the keys in descending order
RECURSIVE SortStringsDescending(_)
SortStringsDescending(keys) ==
    IF keys = {} THEN <<>>
    ELSE LET most == CHOOSE k \in keys : \A o \in keys \ {k} : StringLess(o, k)
         IN  <<most>> \o SortStringsDescending(keys \ {most})

\* sort.Strings on the keys of a map
RECURSIVE SortStrings(_)
SortStrings(keys) ==
    IF keys = {} THEN <<>>
    ELSE LET least == CHOOSE k \in keys : \A o \in keys \ {k} : StringLess(k, o)
         IN  <<least>> \o SortStrings(keys \ {least})

needsQuoting(value) ==
    \E i \in 1..Len(value) :
        value[i] \in {";", "=", "\"", "\\", " "} \/ IsUpper(value[i])

RECURSIVE EscapeFrom(_, _)
EscapeFrom(value, i) ==
    IF i > Len(value) THEN <<>>
    ELSE (IF value[i] = "\"" \/ value[i] = "\\" THEN <<"\\">> ELSE <<>>)
         \o <<value[i]>> \o EscapeFrom(value, i + 1)

quoteValue(value) == <<"\"">> \o EscapeFrom(value, 1) \o <<"\"">>

\* the text of one tag with ? written as a bare key, like *
TagTextQuestBare(key, value) ==
    CASE value = Star -> key
      [] value = Quest -> key
      [] value = Bang -> key \o <<"=", "!">>
      [] OTHER -> IF needsQuoting(value) THEN key \o <<"=">> \o quoteValue(value)
                  ELSE key \o <<"=">> \o value

\* the text of one tag in ToString
TagText(key, value) ==
    CASE value = Star -> key
      [] value = Quest -> key \o <<"=", "?">>
      [] value = Bang -> key \o <<"=", "!">>
      [] OTHER -> IF needsQuoting(value) THEN key \o <<"=">> \o quoteValue(value)
                  ELSE key \o <<"=">> \o value

\* strings.Join(parts, ";") over the sorted keys
RECURSIVE JoinTags(_, _)
JoinTags(tags, keys) ==
    IF keys = <<>> THEN <<>>
    ELSE IF Len(keys) = 1 THEN TagText(keys[1], tags[keys[1]])
    ELSE TagText(keys[1], tags[keys[1]]) \o <<";">> \o JoinTags(tags, Tail(keys))

ToString(c) ==
    IF DOMAIN c.tags = {} THEN c.prefix \o <<":">>
    ELSE c.prefix \o <<":">> \o JoinTags(c.tags, SortStrings(DOMAIN c.tags))

\* sha256.Sum256 printed with %x: a digest that is a function of the text
Sha256Hex(text) == <<"sha256", text>>

Hash(c) == Sha256Hex(ToString(c))

Equals(c, other) ==
    IF IsNil(other) THEN FALSE
    ELSE IF c.prefix # other.prefix THEN FALSE
    ELSE IF Cardinality(DOMAIN c.tags) # Cardinality(DOMAIN other.tags) THEN FALSE
    ELSE \A key \in DOMAIN c.tags :
            key \in DOMAIN other.tags /\ c.tags[key] = other.tags[key]

(***************************************************************************)
(* Selector (UrnMatcher)                                                   *)
(***************************************************************************)
\* the loop of FindBestMatch from candidate i on; best is the index of the
\* candidate held in `best` (0 for nil)
RECURSIVE FindBestFrom(_, _, _, _, _)
FindBestFrom(cands, req, i, best, bestSpecificity) ==
    IF i > Len(cands) THEN Ret(best, NoError)
    ELSE LET canHandle == CanHandle(cands[i], req)
             specificity == Specificity(cands[i])
         IN  IF canHandle.err # NoError THEN Ret(0, canHandle.err)
             ELSE IF canHandle.val /\ specificity > bestSpecificity
                  THEN FindBestFrom(cands, req, i + 1, i, specificity)
                  ELSE FindBestFrom(cands, req, i + 1, best, bestSpecificity)

\* FindBestMatch starting from bestSpecificity 0 instead of -1
FindBestMatchFromZero(cands, req) == FindBestFrom(cands, req, 1, 0, 0)

\* FindBestMatch: the index in cands of the returned candidate, 0 for nil
FindBestMatch(cands, req) == FindBestFrom(cands, req, 1, 0, -1)

\* the filter loop of FindAllMatches
RECURSIVE CollectMatches(_, _, _, _)
CollectMatches(cands, req, i, matches) ==
    IF i > Len(cands) THEN Ret(matches, NoError)
    ELSE LET canHandle == CanHandle(cands[i], req)
         IN  IF canHandle.err # NoError THEN Ret(<<>>, canHandle.err)
             ELSE IF canHandle.val
                  THEN CollectMatches(cands, req, i + 1, Append(matches, cands[i]))
                  ELSE CollectMatches(cands, req, i + 1, matches)

\* the less function handed to sort.Slice
MoreSpecific(x, y) == Specificity(x) > Specificity(y)

Swap(seq, i, j) == [seq EXCEPT ![i] = seq[j], ![j] = seq[i]]

\* sort.Slice on a slice of at most maxInsertion elements is an insertion sort
RECURSIVE InsertBackwards(_, _)
InsertBackwards(seq, j) ==
    IF j > 1 /\ MoreSpecific(seq[j], seq[j - 1])
    THEN InsertBackwards(Swap(seq, j, j - 1), j - 1)
    ELSE seq

RECURSIVE InsertionSortFrom(_, _)
InsertionSortFrom(seq, i) ==
    IF i > Len(seq) THEN seq
    ELSE InsertionSortFrom(InsertBackwards(seq, i), i + 1)

maxInsertion == 12

RemoveAt(seq, i) == SubSeq(seq, 1, i - 1) \o SubSeq(seq, i + 1, Len(seq))

\* every order of seq in which no element precedes a more specific one
RECURSIVE SortedOrders(_)
SortedOrders(seq) ==
    IF seq = <<>> THEN {<<>>}
    ELSE LET top == {x \in {seq[i] : i \in 1..Len(seq)} :
                        \A i \in 1..Len(seq) : ~MoreSpecific(seq[i], x)}
             FirstAt(x) == CHOOSE i \in 1..Len(seq) : seq[i] = x
         IN  UNION {{<<x>> \o t : t \in SortedOrders(RemoveAt(seq, FirstAt(x)))} :
                        x \in top}

\* sort.Slice(matches, less): the slices it can leave.  The sort is not stable:
\* beyond maxInsertion elements the order of equally specific elements is
\* whatever the quicksort leaves.
SortSlice(seq) ==
    IF Len(seq) <= maxInsertion THEN {InsertionSortFrom(seq, 2)}
    ELSE SortedOrders(seq)

\* FindAllMatches: the set of (slice, error) pairs the call can return
FindAllMatches(cands, req) ==
    LET collected == CollectMatches(cands, req, 1, <<>>)
    IN  IF collected.err # NoError THEN {collected}
        ELSE {Ret(sorted, NoError) : sorted \in SortSlice(collected.val)}

\* the loops of AreCompatible from the pair (i, j) on
RECURSIVE AreCompatibleFrom(_, _, _, _)
AreCompatibleFrom(urns1, urnsTwo, i, j) ==
    IF i > Len(urns1) THEN Ret(FALSE, NoError)
    ELSE IF j > Len(urnsTwo) THEN AreCompatibleFrom(urns1, urnsTwo, i + 1, 1)
    ELSE LET compatible == IsCompatibleWith(urns1[i], urnsTwo[j])
         IN  IF compatible.err # NoError THEN Ret(FALSE, compatible.err)
             ELSE IF compatible.val THEN Ret(TRUE, NoError)
             ELSE AreCompatibleFrom(urns1, urnsTwo, i, j + 1)

AreCompatible(urns1, urnsTwo) == AreCompatibleFrom(urns1, urnsTwo, 1, 1)

(***************************************************************************)
(* Specification SpecSelect: the selector calls.  The candidate list is    *)
(* either a short list over a varied set of URNs or a long list that       *)
(* repeats one candidate, with other candidates at up to two positions.    *)
(***************************************************************************)
MaxCands == 3

MaxSortLen == 13

SelKeys == {<<"a">>, <<"b">>}

SelValues == {Star, Quest, <<"v">>}

SelUrns ==
    {TaggedUrn(<<"p">>, t) : t \in UNION {[ks -> SelValues] : ks \in SUBSET SelKeys}}
    \cup {TaggedUrn(<<"q">>, [k \in {<<"a">>} |-> <<"v">>])}

ExactA == TaggedUrn(<<"p">>, [k \in {<<"a">>} |-> <<"v">>])

ExactAOpenB ==
    TaggedUrn(<<"p">>, [k \in SelKeys |-> IF k = <<"a">> THEN <<"v">> ELSE Quest])

ExactAB == TaggedUrn(<<"p">>, [k \in SelKeys |-> <<"v">>])

SelRequests ==
    {ExactA, ExactAB, TaggedUrn(<<"p">>, EmptyTags),
     TaggedUrn(<<"p">>, [k \in {<<"a">>} |-> Star]), NilUrn}

SortUrns == {ExactA, ExactAOpenB, ExactAB}

ShortLists == UNION {[1..n -> SelUrns] : n \in 0..MaxCands}

LongListsOfLen(n) ==
    {[i \in 1..n |-> IF i = j1 THEN y1 ELSE IF i = j2 THEN y2 ELSE x] :
        j1 \in 1..n, j2 \in 1..n,
        x \in SortUrns, y1 \in SortUrns, y2 \in SortUrns}

LongLists == UNION {LongListsOfLen(n) : n \in (maxInsertion + 1)..MaxSortLen}

InitSelect ==
    /\ urns \in ShortLists \cup LongLists
    /\ request \in SelRequests
    /\ urnA = NilUrn
    /\ urnB = NilUrn
    /\ input = <<>>
    /\ urns2 = <<>>
    /\ heap = <<>>
    /\ objs = <<>>
    /\ builder = NilUrn
    /\ owned = {}
    /\ op = "new"
    /\ result = NoResult
    /\ scan = NotScanning

DoFindBestMatch ==
    /\ op = "new"
    /\ op' = "FindBestMatch"
    /\ result' = FindBestMatch(urns, request)
    /\ UNCHANGED <<urnA, urnB, urns, request, input, urns2, heapVars, scan>>

DoFindAllMatches ==
    /\ op = "new"
    /\ op' = "FindAllMatches"
    /\ result' \in FindAllMatches(urns, request)
    /\ UNCHANGED <<urnA, urnB, urns, request, input, urns2, heapVars, scan>>

NextSelect == DoFindBestMatch \/ DoFindAllMatches

SpecSelect == InitSelect /\ [][NextSelect]_vars

(***************************************************************************)
(* Specification SpecCompat: AreCompatible on two short lists of URNs,     *)
(* some of them of another prefix.                                         *)
(***************************************************************************)
MaxSet == 2

CompatUrns ==
    {TaggedUrn(<<"p">>, [k \in {<<"a">>} |-> v]) : v \in {<<"v">>, <<"w">>, Bang}}
    \cup {TaggedUrn(<<"q">>, [k \in {<<"a">>} |-> <<"v">>])}

CompatLists == UNION {[1..n -> CompatUrns] : n \in 0..MaxSet}

InitCompat ==
    /\ urns \in CompatLists
    /\ urns2 \in CompatLists
    /\ urnA = NilUrn
    /\ urnB = NilUrn
    /\ request = NilUrn
    /\ input = <<>>
    /\ heap = <<>>
    /\ objs = <<>>
    /\ builder = NilUrn
    /\ owned = {}
    /\ op = "new"
    /\ result = NoResult
    /\ scan = NotScanning

DoAreCompatible ==
    /\ op = "new"
    /\ op' = "AreCompatible"
    /\ result' = AreCompatible(urns, urns2)
    /\ UNCHANGED <<urnA, urnB, urns, request, input, urns2, heapVars, scan>>

NextCompat == DoAreCompatible

SpecCompat == InitCompat /\ [][NextCompat]_vars

(***************************************************************************)
(* Specification SpecParse: NewTaggedUrnFromString on a bounded input,     *)
(* then ToString and a second parse of the result.  The inputs are a       *)
(* prefix text, a colon and a tag list; the tag lists are all the strings  *)
(* of at most MaxLen characters of which the tokenizer reads every         *)
(* character (it stops at the first character it rejects, so a longer      *)
(* string with a rejected prefix parses like that prefix).                 *)
(***************************************************************************)
MaxLen == 5

ParseChars == {"a", "A", "1", ":", ";", "=", "\"", "\\", " ", "*", "?", "!", "@"}

PrefixTexts == {<<"p">>, <<"P">>, <<" ", "p">>}

Readable(chars) == ScanLoop(Scanner(EmptyTags), chars).err = NoError

RECURSIVE TagLists(_)
TagLists(n) ==
    IF n = 0 THEN {<<>>}
    ELSE LET shorter == TagLists(n - 1)
         IN  shorter \cup
             {Append(b, c) : b \in {x \in shorter : Len(x) = n - 1 /\ Readable(x)},
                             c \in ParseChars}

ParseInputs ==
    {<<>>, <<"p">>, <<":">>, <<":", "a">>, <<"a", "=", "a">>}
    \cup {pre \o <<":">> \o body : pre \in PrefixTexts, body \in TagLists(MaxLen)}

InitParse ==
    /\ input \in ParseInputs
    /\ urnA = NilUrn
    /\ urnB = NilUrn
    /\ urns = <<>>
    /\ request = NilUrn
    /\ urns2 = <<>>
    /\ heap = <<>>
    /\ objs = <<>>
    /\ builder = NilUrn
    /\ owned = {}
    /\ op = "new"
    /\ result = NoResult
    /\ scan = NotScanning

\* u, err := NewTaggedUrnFromString(input)
DoParse ==
    /\ op = "new"
    /\ op' = "NewTaggedUrnFromString"
    /\ result' = NewTaggedUrnFromString(input)
    /\ urnA' = result'.val
    /\ UNCHANGED <<urnB, urns, request, input, urns2, heapVars, scan>>

\* r, err := NewTaggedUrnFromString(u.ToString())
DoRoundTrip ==
    /\ op = "NewTaggedUrnFromString"
    /\ result.err = NoError
    /\ op' = "RoundTrip"
    /\ LET again == NewTaggedUrnFromString(ToString(urnA))
       IN  /\ urnB' = again.val
           /\ result' = Ret(ToString(urnA), again.err)
    /\ UNCHANGED <<urnA, urns, request, input, urns2, heapVars, scan>>

NextParse == DoParse \/ DoRoundTrip

SpecParse == InitParse /\ [][NextParse]_vars

(***************************************************************************)
(* Specification SpecScan: NewTaggedUrnFromString step by step.  The call  *)
(* validates the prefix, then runs one iteration of the scanning loop per  *)
(* step, then the end-of-input switch, and returns.                        *)
(***************************************************************************)
\* tagsPart := s[colonPos+1:], as runes
TagsPart(s) == SubSeq(s, ColonPos(s) + 1, Len(s))

\* prefix := strings.ToLower(s[:colonPos])
PrefixPart(s) == ToLower(SubSeq(s, 1, ColonPos(s) - 1))

\* inputs with a quoted entry next to an entry of the same key
LongInputs ==
    {<<"p", ":", "a", ";", "A", "=", "\"", "a", "\"">>,
     <<"p", ":", "a", "=", "\"", "a", "\"", ";", "a">>,
     <<"p", ":", "a", "=", "\"", "A", "\"", ";", "A", "=", "1">>,
     <<"p", ":", "a", "=", "\"", ";", "\"", ";", "a", "1">>}

\* the characters of the tag lists that are scanned step by step
ScanChars == ParseChars \ {" ", "@", "!"}

ScanInputs ==
    {<<>>, <<"p">>, <<":">>, <<":", "a">>, <<"a", "=", "a">>}
    \cup {<<"p", ":">> \o body :
            body \in {b \in TagLists(MaxLen) : \A i \in 1..Len(b) : b[i] \in ScanChars}}
    \cup LongInputs

InitScan ==
    /\ input \in ScanInputs
    /\ scan = NotScanning
    /\ urnA = NilUrn
    /\ urnB = NilUrn
    /\ urns = <<>>
    /\ urns2 = <<>>
    /\ request = NilUrn
    /\ heap = <<>>
    /\ objs = <<>>
    /\ builder = NilUrn
    /\ owned = {}
    /\ op = "new"
    /\ result = NoResult

\* return u, err
ScanReturns(u, err) ==
    /\ op' = "NewTaggedUrnFromString"
    /\ result' = Ret(u, err)
    /\ urnA' = u

\* the statements before the loop: the tests on the input and its prefix,
\* and the return for an empty tag list
ScanStart ==
    /\ op = "new"
    /\ IF input = <<>> THEN ScanReturns(NilUrn, ErrorInvalidFormat) /\ scan' = scan
       ELSE IF ColonPos(input) = 0
            THEN ScanReturns(NilUrn, ErrorMissingPrefix) /\ scan' = scan
       ELSE IF ColonPos(input) = 1
            THEN ScanReturns(NilUrn, ErrorEmptyPrefix) /\ scan' = scan
       ELSE IF TagsPart(input) = <<>> \/ TagsPart(input) = <<";">>
            THEN /\ ScanReturns(TaggedUrn(PrefixPart(input), EmptyTags), NoError)
                 /\ scan' = scan
       ELSE /\ scan' = Scanner(EmptyTags)
            /\ op' = "scanning"
            /\ UNCHANGED <<result, urnA>>
    /\ UNCHANGED <<urnB, urns, request, input, urns2, heapVars>>

\* one iteration of the loop: it returns the error of the character or goes
\* on to the next character
ScanStep ==
    /\ op = "scanning"
    /\ scan.pos < Len(TagsPart(input))
    /\ scan' = ScanChar(scan, TagsPart(input)[scan.pos + 1])
    /\ IF scan'.err # NoError
       THEN ScanReturns(NilUrn, scan'.err)
       ELSE UNCHANGED <<op, result, urnA>>
    /\ UNCHANGED <<urnB, urns, request, input, urns2, heapVars>>

\* the switch after the loop and the final return
ScanFinish ==
    /\ op = "scanning"
    /\ scan.pos >= Len(TagsPart(input))
    /\ scan' = ScanEnd(scan)
    /\ IF scan'.err # NoError
       THEN ScanReturns(NilUrn, scan'.err)
       ELSE ScanReturns(TaggedUrn(PrefixPart(input), scan'.tags), NoError)
    /\ UNCHANGED <<urnB, urns, request, input, urns2, heapVars>>

NextScan == ScanStart \/ ScanStep \/ ScanFinish

SpecScan == InitScan /\ [][NextScan]_vars

\* the call is scheduled until it returns
SpecScanFair == SpecScan /\ WF_vars(NextScan)

(***************************************************************************)
(* Mutators: each returns a new URN value                                  *)
(***************************************************************************)
\* AllTags: the contents of the copy it returns
AllTags(c) == [k \in DOMAIN c.tags |-> c.tags[k]]

\* GetTag(key): the (string, bool) pair; the zero string when the key is absent
GetTag(c, key) ==
    [value |-> IF ToLower(key) \in DOMAIN c.tags THEN c.tags[ToLower(key)] ELSE <<>>,
     exists |-> ToLower(key) \in DOMAIN c.tags]

HasTag(c, key, value) ==
    ToLower(key) \in DOMAIN c.tags /\ c.tags[ToLower(key)] = value

WithTag(c, key, value) == TaggedUrn(c.prefix, SetTag(c.tags, ToLower(key), value))

WithoutTag(c, key) ==
    TaggedUrn(c.prefix, [k \in DOMAIN c.tags \ {ToLower(key)} |-> c.tags[k]])

\* the key is looked up as given, not lowercased
WithWildcardTag(c, key) ==
    IF key \in DOMAIN c.tags THEN WithTag(c, key, Star) ELSE c

\* keys is a sequence of strings, looked up as given
Subset(c, keys) ==
    TaggedUrn(c.prefix,
              [k \in {keys[i] : i \in 1..Len(keys)} \cap DOMAIN c.tags |-> c.tags[k]])

(***************************************************************************)
(* References.  A Go map is a reference: heap[a] is the contents of the    *)
(* map at address a, and a TaggedUrn struct or a TaggedUrnBuilder holds    *)
(* the address of its map, so that two structs can hold the same map.      *)
(***************************************************************************)
\* the struct &TaggedUrn{prefix: prefix, tags: <map at addr>}
UrnRef(prefix, addr) == [prefix |-> prefix, tags |-> addr]

\* the memory: the maps and the TaggedUrn structs; a *TaggedUrn is an index
\* of objs, 0 for nil
Memory(h, o) == [heap |-> h, objs |-> o]

\* the URN value seen through the pointer i in memory m
Deref(m, i) == TaggedUrn(m.objs[i].prefix, m.heap[m.objs[i].tags])

\* the memory after a call, and the pointer the call returned
Out(h, o, i) == [heap |-> h, objs |-> o, out |-> i]

\* return &TaggedUrn{...} on a map made and filled by the call itself
Fresh(m, u) ==
    Out(Append(m.heap, u.tags),
        Append(m.objs, UrnRef(u.prefix, Len(m.heap) + 1)),
        Len(m.objs) + 1)

\* WithTag writing into the map of the receiver and returning the receiver
WithTagInPlace(m, i, key, value) ==
    Out([m.heap EXCEPT ![m.objs[i].tags] = WithTag(Deref(m, i), key, value).tags],
        m.objs, i)

WithTagRef(m, i, key, value) == Fresh(m, WithTag(Deref(m, i), key, value))

WithoutTagRef(m, i, key) == Fresh(m, WithoutTag(Deref(m, i), key))

\* returns the receiver itself when the key is absent
WithWildcardTagRef(m, i, key) ==
    IF key \in DOMAIN Deref(m, i).tags THEN WithTagRef(m, i, key, Star)
    ELSE Out(m.heap, m.objs, i)

SubsetRef(m, i, keys) == Fresh(m, Subset(Deref(m, i), keys))

\* Merge of two same-prefix URNs
MergeRef(m, i, j) == Fresh(m, Merge(Deref(m, i), Deref(m, j)).val)

\* NewTaggedUrnFromTags(prefix, <map at addr>): the outcomes of the call
NewTaggedUrnFromTagsRef(m, prefix, addr) ==
    {Fresh(m, u) : u \in NewTaggedUrnFromTags(prefix, m.heap[addr])}

\* &TaggedUrn{prefix: b.prefix, tags: b.tags}: a new struct that holds the
\* map of the builder itself
BuildRef(m, b) ==
    Out(m.heap, Append(m.objs, UrnRef(b.prefix, b.tags)), Len(m.objs) + 1)

\* b.tags[strings.ToLower(key)] = value
Tag(h, b, key, value) == [h EXCEPT ![b.tags] = SetTag(@, ToLower(key), value)]

(***************************************************************************)
(* Specification SpecHeap: a caller that builds URNs through every         *)
(* constructor and mutator, keeps the maps it passed in or got back, and   *)
(* goes on using its builder and writing to its maps.                      *)
(***************************************************************************)
MaxObjs == 3

MaxMaps == 4

HeapPrefix == <<"P">>

HeapKeys == {<<"B">>}

HeapValues == {<<"w">>}

HeapInputs == {<<"p", ":", "b", "=", "v">>}

\* the map the caller starts with
CallerMaps == {[k \in {<<"a">>} |-> <<"v">>], [k \in HeapKeys |-> <<"v">>]}

InitHeap ==
    /\ heap \in {<<t>> : t \in CallerMaps}
    /\ owned = {1}
    /\ objs = <<>>
    /\ builder = NilUrn
    /\ urnA = NilUrn
    /\ urnB = NilUrn
    /\ urns = <<>>
    /\ urns2 = <<>>
    /\ request = NilUrn
    /\ input = <<>>
    /\ op = "new"
    /\ result = NoResult
    /\ scan = NotScanning

Mem == Memory(heap, objs)

\* the pointers of a call: receiver, argument and returned URN (0 for none)
Ptrs(recv, arg, out) == [recv |-> recv, arg |-> arg, out |-> out]

\* the call name(recv, arg) returned o.out and left the memory o
Returns(name, recv, arg, o) ==
    /\ Len(o.objs) <= MaxObjs
    /\ Len(o.heap) <= MaxMaps
    /\ heap' = o.heap
    /\ objs' = o.objs
    /\ op' = name
    /\ result' = Ret(Ptrs(recv, arg, o.out), NoError)
    /\ UNCHANGED <<urnA, urnB, urns, request, input, urns2, scan>>

RunEmpty ==
    /\ Returns("Empty", 0, 0, Fresh(Mem, Empty(HeapPrefix)))
    /\ UNCHANGED <<builder, owned>>

RunNewTaggedUrnFromTags ==
    /\ \E addr \in owned :
        \E o \in NewTaggedUrnFromTagsRef(Mem, HeapPrefix, addr) :
            Returns("NewTaggedUrnFromTags", 0, 0, o)
    /\ UNCHANGED <<builder, owned>>

RunNewTaggedUrnFromString ==
    /\ \E s \in HeapInputs :
        Returns("NewTaggedUrnFromString", 0, 0,
                Fresh(Mem, NewTaggedUrnFromString(s).val))
    /\ UNCHANGED <<builder, owned>>

RunWithTag ==
    /\ \E i \in 1..Len(objs), key \in HeapKeys, value \in HeapValues :
        Returns("WithTag", i, 0, WithTagRef(Mem, i, key, value))
    /\ UNCHANGED <<builder, owned>>

RunWithoutTag ==
    /\ \E i \in 1..Len(objs), key \in HeapKeys :
        Returns("WithoutTag", i, 0, WithoutTagRef(Mem, i, key))
    /\ UNCHANGED <<builder, owned>>

RunWithWildcardTag ==
    /\ \E i \in 1..Len(objs), key \in {ToLower(k) : k \in HeapKeys} :
        Returns("WithWildcardTag", i, 0, WithWildcardTagRef(Mem, i, key))
    /\ UNCHANGED <<builder, owned>>

RunSubset ==
    /\ \E i \in 1..Len(objs), key \in {ToLower(k) : k \in HeapKeys} :
        Returns("Subset", i, 0, SubsetRef(Mem, i, <<key>>))
    /\ UNCHANGED <<builder, owned>>

RunMerge ==
    /\ \E i, j \in 1..Len(objs) :
        Returns("Merge", i, j, MergeRef(Mem, i, j))
    /\ UNCHANGED <<builder, owned>>

\* m := u.AllTags(): the caller holds the copy
RunAllTags ==
    /\ Len(heap) < MaxMaps
    /\ \E i \in 1..Len(objs) :
        /\ heap' = Append(heap, AllTags(Deref(Mem, i)))
        /\ owned' = owned \cup {Len(heap) + 1}
        /\ op' = "AllTags"
        /\ result' = Ret(Ptrs(i, 0, 0), NoError)
    /\ UNCHANGED <<objs, builder, urnA, urnB, urns, request, input, urns2, scan>>

\* m[key] = value on a map the caller holds
RunWriteMap ==
    /\ \E addr \in owned, key \in HeapKeys, value \in HeapValues :
        /\ heap' = [heap EXCEPT ![addr] = SetTag(@, key, value)]
        /\ op' = "WriteMap"
        /\ result' = Ret(Ptrs(0, 0, 0), NoError)
    /\ UNCHANGED <<objs, builder, owned, urnA, urnB, urns, request, input, urns2, scan>>

RunNewTaggedUrnBuilder ==
    /\ builder = NilUrn
    /\ Len(heap) < MaxMaps
    /\ heap' = Append(heap, EmptyTags)
    /\ builder' = UrnRef(ToLower(HeapPrefix), Len(heap) + 1)
    /\ op' = "NewTaggedUrnBuilder"
    /\ result' = Ret(Ptrs(0, 0, 0), NoError)
    /\ UNCHANGED <<objs, owned, urnA, urnB, urns, request, input, urns2, scan>>

RunTag ==
    /\ builder # NilUrn
    /\ \E key \in HeapKeys, value \in HeapValues :
        heap' = Tag(heap, builder, key, value)
    /\ op' = "Tag"
    /\ result' = Ret(Ptrs(0, 0, 0), NoError)
    /\ UNCHANGED <<objs, builder, owned, urnA, urnB, urns, request, input, urns2, scan>>

\* Build: an error and a nil URN when the builder has no tags
RunBuild ==
    /\ builder # NilUrn
    /\ IF DOMAIN heap[builder.tags] = {}
       THEN /\ op' = "Build"
            /\ result' = Ret(Ptrs(0, 0, 0), ErrorInvalidFormat)
            /\ UNCHANGED <<heap, objs, urnA, urnB, urns, request, input, urns2, scan>>
       ELSE Returns("Build", 0, 0, BuildRef(Mem, builder))
    /\ UNCHANGED <<builder, owned>>

RunBuildAllowEmpty ==
    /\ builder # NilUrn
    /\ Returns("BuildAllowEmpty", 0, 0, BuildRef(Mem, builder))
    /\ UNCHANGED <<builder, owned>>

NextHeap ==
    \/ RunEmpty
    \/ RunNewTaggedUrnFromTags
    \/ RunNewTaggedUrnFromString
    \/ RunWithTag
    \/ RunWithoutTag
    \/ RunWithWildcardTag
    \/ RunSubset
    \/ RunMerge
    \/ RunAllTags
    \/ RunWriteMap
    \/ RunNewTaggedUrnBuilder
    \/ RunTag
    \/ RunBuild
    \/ RunBuildAllowEmpty

SpecHeap == InitHeap /\ [][NextHeap]_vars

(***************************************************************************)
(* Specification SpecApi: one URN made and remade through the programmatic *)
(* constructors and the mutators, with arguments that include the empty    *)
(* string, a numeric key and a key with a space.                           *)
(***************************************************************************)
ApiPrefixes == {<<>>, <<"P">>}

ApiKeys == {<<>>, <<"a">>, <<"1">>, <<"A", " ">>}

ApiValues == {<<>>, <<"v">>}

ApiTags == UNION {[ks -> ApiValues] : ks \in SUBSET ApiKeys}

\* NewTaggedUrnBuilder(prefix).Tag(key, value).BuildAllowEmpty()
Built(prefix, key, value) ==
    LET b == UrnRef(ToLower(prefix), 1)
        o == BuildRef(Memory(Tag(<<EmptyTags>>, b, key, value), <<>>), b)
    IN  Deref(o, o.out)

InitApi ==
    /\ urnA = NilUrn
    /\ urnB = NilUrn
    /\ urns = <<>>
    /\ urns2 = <<>>
    /\ request = NilUrn
    /\ input = <<>>
    /\ heap = <<>>
    /\ objs = <<>>
    /\ builder = NilUrn
    /\ owned = {}
    /\ op = "new"
    /\ result = NoResult
    /\ scan = NotScanning

\* the call name returned the URN u, which the caller keeps
Keeps(name, u) ==
    /\ urnA' = u
    /\ op' = name
    /\ result' = Ret(u, NoError)
    /\ UNCHANGED <<urnB, urns, request, input, urns2, heapVars, scan>>

ApiEmpty == \E prefix \in ApiPrefixes : Keeps("Empty", Empty(prefix))

ApiNewTaggedUrnFromTags ==
    \E prefix \in ApiPrefixes, tags \in ApiTags :
        \E u \in NewTaggedUrnFromTags(prefix, tags) : Keeps("NewTaggedUrnFromTags", u)

ApiBuild ==
    \E prefix \in ApiPrefixes, key \in ApiKeys, value \in ApiValues :
        Keeps("Build", Built(prefix, key, value))

ApiWithTag ==
    /\ ~IsNil(urnA)
    /\ \E key \in ApiKeys, value \in ApiValues :
          Keeps("WithTag", WithTag(urnA, key, value))

ApiWithoutTag ==
    /\ ~IsNil(urnA)
    /\ \E key \in ApiKeys : Keeps("WithoutTag", WithoutTag(urnA, key))

ApiWithWildcardTag ==
    /\ ~IsNil(urnA)
    /\ \E key \in ApiKeys : Keeps("WithWildcardTag", WithWildcardTag(urnA, key))

ApiSubset ==
    /\ ~IsNil(urnA)
    /\ \E k1, k2 \in ApiKeys : Keeps("Subset", Subset(urnA, <<k1, k2>>))

ApiMerge ==
    /\ ~IsNil(urnA)
    /\ \E key \in ApiKeys, value \in ApiValues :
          LET merged == Merge(urnA, Built(urnA.prefix, key, value))
          IN  merged.err = NoError /\ Keeps("Merge", merged.val)

NextApi ==
    \/ ApiEmpty
    \/ ApiNewTaggedUrnFromTags
    \/ ApiBuild
    \/ ApiWithTag
    \/ ApiWithoutTag
    \/ ApiWithWildcardTag
    \/ ApiSubset
    \/ ApiMerge

SpecApi == InitApi /\ [][NextApi]_vars

(***************************************************************************)
(* JSON.  A TaggedUrn marshals to the JSON string of its canonical text    *)
(* and unmarshals by parsing that string.  Of the JSON escapes the model   *)
(* has those of its alphabet: \" \\ and \/.                                *)
(***************************************************************************)
\* the error of fmt.Errorf in UnmarshalJSON, which is not a TaggedUrnError
errUnmarshalNotString == 12

\* json.Marshal of a string: the contents with " and \ escaped
RECURSIVE jsonEscapeFrom(_, _)
jsonEscapeFrom(s, i) ==
    IF i > Len(s) THEN <<>>
    ELSE (IF s[i] = "\"" \/ s[i] = "\\" THEN <<"\\">> ELSE <<>>)
         \o <<s[i]>> \o jsonEscapeFrom(s, i + 1)

jsonMarshal(s) == <<"\"">> \o jsonEscapeFrom(s, 1) \o <<"\"">>

\* the JSON whitespace around a value is skipped
RECURSIVE jsonTrim(_)
jsonTrim(data) ==
    IF data = <<>> THEN data
    ELSE IF data[1] = " " THEN jsonTrim(Tail(data))
    ELSE IF data[Len(data)] = " " THEN jsonTrim(SubSeq(data, 1, Len(data) - 1))
    ELSE data

\* the contents of a JSON string literal from position i on, decoded
RECURSIVE jsonUnquoteFrom(_, _)
jsonUnquoteFrom(body, i) ==
    IF i > Len(body) THEN [ok |-> TRUE, s |-> <<>>]
    ELSE IF body[i] = "\"" THEN [ok |-> FALSE, s |-> <<>>]
    ELSE IF body[i] = "\\" THEN
        IF i + 1 > Len(body) \/ body[i + 1] \notin {"\"", "\\", "/"}
        THEN [ok |-> FALSE, s |-> <<>>]
        ELSE LET rest == jsonUnquoteFrom(body, i + 2)
             IN  [ok |-> rest.ok, s |-> <<body[i + 1]>> \o rest.s]
    ELSE LET rest == jsonUnquoteFrom(body, i + 1)
         IN  [ok |-> rest.ok, s |-> <<body[i]>> \o rest.s]

\* json.Unmarshal(data, &s) with s == "" before the call: null leaves s as
\* it is, a string literal is decoded, anything else is an error
jsonUnmarshal(data) ==
    LET text == jsonTrim(data)
    IN  IF text = <<"n", "u", "l", "l">> THEN [ok |-> TRUE, s |-> <<>>]
        ELSE IF Len(text) >= 2 /\ text[1] = "\"" /\ text[Len(text)] = "\""
        THEN jsonUnquoteFrom(SubSeq(text, 2, Len(text) - 1), 1)
        ELSE [ok |-> FALSE, s |-> <<>>]

MarshalJSON(c) == Ret(jsonMarshal(ToString(c)), NoError)

\* UnmarshalJSON(data) on the receiver c: the receiver after the call and
\* the error returned
UnmarshalJSON(c, data) ==
    LET decoded == jsonUnmarshal(data)
    IN  IF ~decoded.ok THEN [recv |-> c, err |-> errUnmarshalNotString]
        ELSE LET taggedUrn == NewTaggedUrnFromString(decoded.s)
             IN  IF taggedUrn.err # NoError THEN [recv |-> c, err |-> taggedUrn.err]
                 ELSE [recv |-> TaggedUrn(taggedUrn.val.prefix, taggedUrn.val.tags),
                       err |-> NoError]

(***************************************************************************)
(* Specification SpecJson: a parsed URN is marshalled, and a receiver is   *)
(* unmarshalled from the bytes produced or from a payload of the caller.   *)
(***************************************************************************)
\* the URNs that NewTaggedUrnFromString returns on the inputs of SpecParse
JsonUrns ==
    {NewTaggedUrnFromString(s).val :
        s \in {x \in ParseInputs : NewTaggedUrnFromString(x).err = NoError}}

\* the receivers: a zero TaggedUrn and one that holds a tag
JsonReceivers ==
    {TaggedUrn(<<>>, EmptyTags),
     TaggedUrn(<<"q">>, SetTag(EmptyTags, <<"b">>, <<"w">>))}

JsonPayloads ==
    {<<>>,
     <<"1">>,
     <<"n", "u", "l", "l">>,
     <<"{", "}">>,
     <<"\"">>,
     <<"\"", "\"">>,
     <<"\"", "p", "\"">>,
     <<"\"", "p", ":", "a", "=", "\"">>,
     <<"\"", "p", ":", "a", "\"", "\"">>,
     <<"\"", "p", ":", "a", "=", "\\", "a", "\"">>,
     <<" ", "\"", "P", ":", "A", "\"", " ">>,
     <<"\"", "p", ":", "a", "=", "\\", "\"", "A", "\\", "\"", "\"">>,
     <<"\"", "p", ":", "a", "=", "@", "\"">>}

InitJson ==
    /\ urnA \in JsonUrns
    /\ urnB \in JsonReceivers
    /\ urns = <<>>
    /\ request = NilUrn
    /\ input = <<>>
    /\ urns2 = <<>>
    /\ heap = <<>>
    /\ objs = <<>>
    /\ builder = NilUrn
    /\ owned = {}
    /\ op = "new"
    /\ result = NoResult
    /\ scan = NotScanning

\* data, err := urnA.MarshalJSON()
DoMarshalJSON ==
    /\ op = "new"
    /\ op' = "MarshalJSON"
    /\ result' = MarshalJSON(urnA)
    /\ input' = result'.val
    /\ UNCHANGED <<urnA, urnB, urns, request, urns2, heapVars, scan>>

\* err := urnB.UnmarshalJSON(data), on the bytes just marshalled or on a
\* payload of the caller
DoUnmarshalJSON ==
    /\ op \in {"new", "MarshalJSON"}
    /\ \E data \in (IF op = "MarshalJSON" THEN {input} ELSE JsonPayloads) :
          LET r == UnmarshalJSON(urnB, data)
          IN  /\ input' = data
              /\ urnB' = r.recv
              /\ result' = Ret(r.recv, r.err)
    /\ op' = "UnmarshalJSON"
    /\ UNCHANGED <<urnA, urns, request, urns2, heapVars, scan>>

NextJson == DoMarshalJSON \/ DoUnmarshalJSON

SpecJson == InitJson /\ [][NextJson]_vars

(***************************************************************************)
(* Specification SpecCanon: ToString, Equals and Hash on two parsed URNs.  *)
(* The first is any URN the inputs of SpecParse parse to, the second one   *)
(* of a few URNs parsed from texts that differ in one detail.              *)
(***************************************************************************)
CanonTexts ==
    {<<"p", ":">>,
     <<"P", ":", ";">>,
     <<" ", "p", ":">>,
     <<"p", ":", "a">>,
     <<"p", ":", "A", "=", "*">>,
     <<"p", ":", "a", "=", "?">>,
     <<"p", ":", "a", "=", "\"", "?", "\"">>,
     <<"p", ":", "a", "=", "!">>,
     <<"p", ":", "a", "=", "a">>,
     <<"p", ":", "a", "=", "A">>,
     <<"p", ":", "a", "=", "\"", "A", "\"">>,
     <<"p", ":", "a", "=", "\"", "a", "\"">>,
     <<"p", ":", "a", "=", "\"", ";", "\"">>,
     <<"p", ":", "a", "=", "\"", "@", "\"">>,
     <<"p", ":", "a", "=", "\"", "\\", "\"", "\"">>,
     <<"p", ":", "a", ";", "1", "a">>,
     <<"p", ":", "1", "a", ";", "a", ";">>,
     <<"p", ":", "a", ";", ":">>,
     <<"p", ":", ":", "a">>,
     <<"p", ":", "a", ":">>}

CanonPeers == {NewTaggedUrnFromString(s).val : s \in CanonTexts}

InitCanon ==
    /\ urnA \in JsonUrns
    /\ urnB \in CanonPeers
    /\ urns = <<>>
    /\ request = NilUrn
    /\ input = <<>>
    /\ urns2 = <<>>
    /\ heap = <<>>
    /\ objs = <<>>
    /\ builder = NilUrn
    /\ owned = {}
    /\ op = "new"
    /\ result = NoResult
    /\ scan = NotScanning

\* urnA.ToString(), urnB.ToString()
DoToString == Call("ToString", Ret(<<ToString(urnA), ToString(urnB)>>, NoError))

\* urnA.Equals(urnB)
DoEquals == Call("Equals", Ret(Equals(urnA, urnB), NoError))

\* urnA.Hash(), urnB.Hash()
DoHash == Call("Hash", Ret(<<Hash(urnA), Hash(urnB)>>, NoError))

NextCanon == DoToString \/ DoEquals \/ DoHash

SpecCanon == InitCanon /\ [][NextCanon]_vars

(***************************************************************************)
(* Properties of the pairwise operations (specification Spec)              *)
(***************************************************************************)
\* the logical state of one side of a key: absent, a sentinel, or exact
StateOf(ptr) ==
    IF ptr = <<>> THEN "absent"
    ELSE IF ptr[1] = Quest THEN "?"
    ELSE IF ptr[1] = Bang THEN "!"
    ELSE IF ptr[1] = Star THEN "*"
    ELSE "exact"

SamePrefixPair == ~IsNil(urnB) /\ urnA.prefix = urnB.prefix

BothKeys == DOMAIN urnA.tags \cup DOMAIN urnB.tags

\* the per-key rule of matching, as a table over (instance state, pattern state)
PerKeyMatch(inst, patt) ==
    LET i == StateOf(inst)
        p == StateOf(patt)
    IN  \/ p \in {"absent", "?"}
        \/ i = "?"
        \/ p = "!" /\ i \in {"absent", "!"}
        \/ p = "*" /\ i \in {"*", "exact"}
        \/ p = "exact" /\ i = "*"
        \/ p = "exact" /\ i = "exact" /\ inst[1] = patt[1]

\* C1: for two URNs with the same prefix, Matches returns true (and no error)
\* exactly when every key present in either URN passes the per-key rule.
C1_MatchesPerKeyRule ==
    (op = "Matches" /\ SamePrefixPair) =>
        /\ result.err = NoError
        /\ result.val =
             (\A key \in BothKeys :
                PerKeyMatch(TagPtr(urnA.tags, key), TagPtr(urnB.tags, key)))

\* a match that needs the instance wildcard against an exact pattern value on
\* one key and an exact/exact agreement on another
C1_Witness ==
    /\ op = "Matches" /\ SamePrefixPair
    /\ result.val = TRUE
    /\ \E k1, k2 \in BothKeys :
          /\ k1 # k2
          /\ StateOf(TagPtr(urnA.tags, k1)) = "*"
          /\ StateOf(TagPtr(urnB.tags, k1)) = "exact"
          /\ StateOf(TagPtr(urnA.tags, k2)) = "exact"
          /\ StateOf(TagPtr(urnB.tags, k2)) = "exact"

PrefixCheckedOps == {"Matches", "IsCompatibleWith", "IsMoreSpecificThan", "Merge"}

\* C3: with different prefixes, Matches, IsCompatibleWith, IsMoreSpecificThan
\* and Merge all return the ErrorPrefixMismatch error, never a plain false or
\* a merged URN, whatever the tags.
C3_PrefixMismatch ==
    (op \in PrefixCheckedOps /\ ~IsNil(urnB) /\ urnA.prefix # urnB.prefix) =>
        /\ result.err = ErrorPrefixMismatch
        /\ op = "Merge" => IsNil(result.val)
        /\ op # "Merge" => result.val = FALSE

\* a cross-prefix Merge of two URNs whose tags would otherwise merge
C3_Witness ==
    /\ op = "Merge" /\ ~IsNil(urnB)
    /\ urnA.prefix # urnB.prefix
    /\ DOMAIN urnA.tags # {} /\ urnA.tags = urnB.tags
    /\ result.err = ErrorPrefixMismatch

\* the stored values of u that are exact, '*', '!'
ExactKeys(u) == {k \in DOMAIN u.tags : u.tags[k] \notin {Star, Bang, Quest}}
StarKeys(u) == {k \in DOMAIN u.tags : u.tags[k] = Star}
BangKeys(u) == {k \in DOMAIN u.tags : u.tags[k] = Bang}

\* C6: Specificity is 3 per exact value (also one that merely contains a
\* sentinel character), 2 per '*', 1 per '!', 0 per '?'; SpecificityTuple is
\* (exact, '*', '!') counts, and Specificity = 3*exact + 2*any + 1*not.
C6_SpecificityWeights ==
    /\ op = "Specificity" =>
          result.val = 3 * Cardinality(ExactKeys(urnA))
                       + 2 * Cardinality(StarKeys(urnA))
                       + Cardinality(BangKeys(urnA))
    /\ op = "SpecificityTuple" =>
          /\ result.val = <<Cardinality(ExactKeys(urnA)),
                            Cardinality(StarKeys(urnA)),
                            Cardinality(BangKeys(urnA))>>
          /\ Specificity(urnA) =
                3 * result.val[1] + 2 * result.val[2] + result.val[3]

\* a URN with the value v* (exact although it contains '*') and a '!'
C6_Witness ==
    /\ op = "Specificity"
    /\ \E k1, k2 \in DOMAIN urnA.tags :
          urnA.tags[k1] = <<"v", "*">> /\ urnA.tags[k2] = Bang
    /\ result.val = 4

\* C9: IsCompatibleWith is reflexive, and symmetric on same-prefix pairs.
C9_CompatReflexiveSymmetric ==
    (op = "IsCompatibleWith" /\ SamePrefixPair) =>
        /\ result.err = NoError
        /\ result.val = IsCompatibleWith(urnB, urnA).val
        /\ urnA = urnB => result.val = TRUE

\* a compatible pair of different URNs, a wildcard on one side only
C9_Witness ==
    /\ op = "IsCompatibleWith" /\ SamePrefixPair
    /\ result.val = TRUE
    /\ \E k \in BothKeys :
          /\ StateOf(TagPtr(urnA.tags, k)) = "exact"
          /\ StateOf(TagPtr(urnB.tags, k)) = "*"

\* the pairwise rule of compatibility, as a table over the two states
PerKeyCompatible(v1, v2) ==
    LET s1 == StateOf(v1)
        s2 == StateOf(v2)
    IN  \/ s1 \in {"absent", "?"}
        \/ s2 \in {"absent", "?"}
        \/ s1 = "!" /\ s2 = "!"
        \/ s1 = "*" /\ s2 \in {"*", "exact"}
        \/ s1 = "exact" /\ s2 = "*"
        \/ s1 = "exact" /\ s2 = "exact" /\ v1[1] = v2[1]

\* C10: for same-prefix URNs, IsCompatibleWith is true exactly when every key
\* present in either passes the pairwise rule.
C10_CompatPerKeyRule ==
    (op = "IsCompatibleWith" /\ SamePrefixPair) =>
        /\ result.err = NoError
        /\ result.val =
             (\A key \in BothKeys :
                PerKeyCompatible(TagPtr(urnA.tags, key), TagPtr(urnB.tags, key)))

\* an incompatible pair: '!' against an exact value on one key, while the
\* other key agrees
C10_Witness ==
    /\ op = "IsCompatibleWith" /\ SamePrefixPair
    /\ result.val = FALSE
    /\ \E k1, k2 \in BothKeys :
          /\ k1 # k2
          /\ StateOf(TagPtr(urnA.tags, k1)) = "!"
          /\ StateOf(TagPtr(urnB.tags, k1)) = "exact"
          /\ StateOf(TagPtr(urnA.tags, k2)) = "exact"
          /\ TagPtr(urnA.tags, k2) = TagPtr(urnB.tags, k2)

\* C17: for same-prefix URNs, Merge returns a URN with the receiver's prefix
\* whose keys are those of either URN; a key of the argument carries the
\* argument's value, a key of the receiver alone the receiver's value; so
\* a=v merged with b=w reads prefix:a=v;b=w.
C17_MergeUnion ==
    (op = "Merge" /\ SamePrefixPair) =>
        /\ result.err = NoError
        /\ ~IsNil(result.val)
        /\ result.val.prefix = urnA.prefix
        /\ DOMAIN result.val.tags = DOMAIN urnA.tags \cup DOMAIN urnB.tags
        /\ \A k \in DOMAIN urnB.tags : result.val.tags[k] = urnB.tags[k]
        /\ \A k \in DOMAIN urnA.tags \ DOMAIN urnB.tags :
              result.val.tags[k] = urnA.tags[k]
        /\ (/\ urnA.tags = [k \in {<<"a">>} |-> <<"v">>]
            /\ urnB.tags = [k \in {<<"b">>} |-> <<"w">>]) =>
              ToString(result.val)
                = urnA.prefix \o <<":", "a", "=", "v", ";", "b", "=", "w">>

\* a merge with a conflict on one key and a key that only the receiver has
C17_Witness ==
    /\ op = "Merge" /\ SamePrefixPair
    /\ \E k1, k2 \in DOMAIN urnA.tags :
          /\ k1 \in DOMAIN urnB.tags
          /\ urnA.tags[k1] # urnB.tags[k1]
          /\ k2 \notin DOMAIN urnB.tags
          /\ result.val.tags[k1] = urnB.tags[k1]
          /\ result.val.tags[k2] = urnA.tags[k2]

\* C18: for same-prefix URNs, IsMoreSpecificThan returns no error; it is false
\* when the two are not compatible and Specificity(a) > Specificity(b)
\* otherwise; it is never true of a URN and itself nor in both directions.
C18_MoreSpecific ==
    (op = "IsMoreSpecificThan" /\ SamePrefixPair) =>
        /\ result.err = NoError
        /\ result.val =
             (/\ \A key \in BothKeys :
                    PerKeyCompatible(TagPtr(urnA.tags, key), TagPtr(urnB.tags, key))
              /\ Specificity(urnA) > Specificity(urnB))
        /\ urnA = urnB => result.val = FALSE
        /\ ~(result.val /\ IsMoreSpecificThan(urnB, urnA).val)

\* the more specific of two URNs that are not compatible: false, no error
C18_Witness ==
    /\ op = "IsMoreSpecificThan" /\ SamePrefixPair
    /\ Specificity(urnA) > Specificity(urnB)
    /\ ~IsCompatibleWith(urnA, urnB).val
    /\ result = Ret(FALSE, NoError)

(***************************************************************************)
(* Properties of the selector (specification SpecSelect)                   *)
(***************************************************************************)
SamePrefixCall ==
    /\ ~IsNil(request)
    /\ \A i \in 1..Len(urns) : urns[i].prefix = request.prefix

\* the indices of the candidates that match the request
Matching == {i \in 1..Len(urns) : Matches(urns[i], request).val}

\* C7: on a same-prefix call FindBestMatch returns no error and a matching
\* candidate of maximal Specificity, the first such in the list; it returns
\* nil exactly when no candidate matches (a match of specificity 0 is returned).
C7_FindBestMatch ==
    (op = "FindBestMatch" /\ SamePrefixCall) =>
        /\ result.err = NoError
        /\ (result.val = 0) = (Matching = {})
        /\ result.val # 0 =>
              /\ result.val \in Matching
              /\ \A j \in Matching :
                    /\ Specificity(urns[j]) <= Specificity(urns[result.val])
                    /\ Specificity(urns[j]) = Specificity(urns[result.val])
                          => result.val <= j

\* a tie at the top between two different candidates, behind a less specific
\* match listed first
C7_Witness ==
    /\ op = "FindBestMatch" /\ SamePrefixCall
    /\ result.val = 2
    /\ 1 \in Matching
    /\ \E j \in Matching :
          /\ j > 2
          /\ urns[j] # urns[2]
          /\ Specificity(urns[j]) = Specificity(urns[2])

\* the elements of seq that have specificity n, in order
RECURSIVE OfSpecificity(_, _)
OfSpecificity(seq, n) ==
    IF seq = <<>> THEN <<>>
    ELSE IF Specificity(Head(seq)) = n
         THEN <<Head(seq)>> \o OfSpecificity(Tail(seq), n)
         ELSE OfSpecificity(Tail(seq), n)

\* the matching candidates, in input order
RECURSIVE MatchingFrom(_)
MatchingFrom(i) ==
    IF i > Len(urns) THEN <<>>
    ELSE IF Matches(urns[i], request).val
         THEN <<urns[i]>> \o MatchingFrom(i + 1)
         ELSE MatchingFrom(i + 1)

\* C8: FindAllMatches returns exactly the matching candidates, ordered by
\* non-increasing Specificity, equally specific ones in their input order,
\* for candidate lists of every length.
C8_FindAllMatchesStable ==
    (op = "FindAllMatches" /\ SamePrefixCall) =>
        /\ result.err = NoError
        /\ Len(result.val) = Cardinality(Matching)
        /\ \A i, j \in 1..Len(result.val) :
              i < j => Specificity(result.val[i]) >= Specificity(result.val[j])
        /\ \A n \in 0..(3 * Cardinality(SelKeys)) :
              OfSpecificity(result.val, n) = OfSpecificity(MatchingFrom(1), n)

\* C19: AreCompatible returns true exactly when some URN of the first list
\* is compatible with some URN of the second, in whatever order the lists
\* are given, also when a pair of different prefixes comes before or after a
\* compatible pair.
C19_AreCompatible ==
    op = "AreCompatible" =>
        result.val =
            (\E i \in 1..Len(urns), j \in 1..Len(urns2) :
                IsCompatibleWith(urns[i], urns2[j]).val)

(***************************************************************************)
(* Properties of parsing and serializing (specification SpecParse)         *)
(***************************************************************************)
\* C2: round-trip law: for every accepted input, parsing the ToString of the
\* result succeeds and gives a URN Equal to it, also for quoted values with
\* characters outside the unquoted charset.
C2_RoundTrip ==
    op = "RoundTrip" => (result.err = NoError /\ Equals(urnA, urnB))

Whitespace == {" "}

ErrorCodes ==
    {ErrorInvalidFormat, ErrorEmptyTag, ErrorInvalidCharacter, ErrorInvalidTagFormat,
     ErrorMissingPrefix, ErrorDuplicateKey, ErrorNumericKey, ErrorUnterminatedQuote,
     ErrorInvalidEscapeSequence, ErrorEmptyPrefix, ErrorPrefixMismatch}

\* C4: an input with leading or trailing whitespace is rejected with a nil URN
\* and the dedicated WhitespaceInInput error, not accepted with the whitespace
\* in the prefix and not reported under one of the other error codes.
C4_WhitespaceRejected ==
    (/\ op = "NewTaggedUrnFromString"
     /\ input # <<>>
     /\ (input[1] \in Whitespace \/ input[Len(input)] \in Whitespace)) =>
        /\ IsNil(result.val)
        /\ result.err # NoError
        /\ result.err \notin ErrorCodes

\* the input is prefix:key="S" with S one of the sentinel characters
QuotedSentinelInput ==
    /\ Len(input) >= 7
    /\ SubSeq(input, Len(input) - 3, Len(input) - 2) = <<"=", "\"">>
    /\ input[Len(input) - 1] \in {"*", "?", "!"}
    /\ input[Len(input)] = "\""
    /\ \A i \in 1..(Len(input) - 4) : input[i] \notin {"=", "\"", ";", "\\"}

\* the same input with the quotes left out: prefix:key=S
Unquoted == SubSeq(input, 1, Len(input) - 3) \o <<input[Len(input) - 1]>>

\* the bare key: prefix:key
BareKey == SubSeq(input, 1, Len(input) - 4)

\* an instance with an ordinary value under the only key of u
OrdinaryInstance(u) == TaggedUrn(u.prefix, [k \in DOMAIN u.tags |-> <<"a">>])

\* C5: a quoted value is Exact even when its text is *, ? or !: the parsed URN
\* is not Equal to the one parsed from the unquoted sentinel, its tag scores 3,
\* it does not serialize as the bare key, and as a pattern it is a literal
\* that an instance with another value does not match.
C5_QuotedSentinelIsExact ==
    (op = "NewTaggedUrnFromString" /\ result.err = NoError /\ QuotedSentinelInput) =>
        /\ ~Equals(urnA, NewTaggedUrnFromString(Unquoted).val)
        /\ Specificity(urnA) = 3
        /\ ToString(urnA) # BareKey
        /\ ~Matches(OrdinaryInstance(urnA), urnA).val

Parsed == op = "NewTaggedUrnFromString" /\ result.err = NoError

\* the characters a key may be made of
KeyCharset == LowerLetters \cup UpperLetters \cup Digits \cup {"_", "-", "/", ":", "."}

AllDigits(s) == \A i \in 1..Len(s) : s[i] \in Digits

NoUpper(s) == \A i \in 1..Len(s) : s[i] \notin UpperLetters

\* the text after the first colon of s
TagListOf(s) ==
    LET first == CHOOSE i \in 1..Len(s) : s[i] = ":" /\ \A j \in 1..(i - 1) : s[j] # ":"
    IN  SubSeq(s, first + 1, Len(s))

\* the pieces of s between the occurrences of sep
RECURSIVE SplitOn(_, _)
SplitOn(s, sep) ==
    IF \A i \in 1..Len(s) : s[i] # sep THEN <<s>>
    ELSE LET first == CHOOSE i \in 1..Len(s) : s[i] = sep /\ \A j \in 1..(i - 1) : s[j] # sep
         IN  <<SubSeq(s, 1, first - 1)>> \o SplitOn(SubSeq(s, first + 1, Len(s)), sep)

NonEmpty(e) == e # <<>>

\* the non-empty entries of a tag list without quotes
Entries(s) == SelectSeq(SplitOn(TagListOf(s), ";"), NonEmpty)

QuoteFree(s) == \A i \in 1..Len(s) : s[i] # "\""

\* s has an empty quoted value: ="" at some position
HasEmptyQuoted(s) ==
    \E i \in 2..(Len(s) - 1) : s[i - 1] = "=" /\ s[i] = "\"" /\ s[i + 1] = "\""

\* C13: a URN returned by a successful parse has a non-empty lowercase prefix;
\* every key is non-empty, lowercase, from the key charset and not purely
\* numeric, bare keys included; every value is non-empty, and a quoted empty
\* value is rejected; no key occurs twice (each entry of the input has a key
\* of its own).
C13_ParsedInvariants ==
    /\ Parsed =>
          /\ urnA.prefix # <<>>
          /\ NoUpper(urnA.prefix)
          /\ \A k \in DOMAIN urnA.tags :
                /\ k # <<>>
                /\ NoUpper(k)
                /\ \A i \in 1..Len(k) : k[i] \in KeyCharset
                /\ ~AllDigits(k)
                /\ urnA.tags[k] # <<>>
          /\ QuoteFree(input) =>
                Cardinality(DOMAIN urnA.tags) = Len(Entries(input))
    /\ (op = "NewTaggedUrnFromString" /\ HasEmptyQuoted(input))
          => (result.err # NoError /\ IsNil(result.val))

\* an accepted input with two entries, one of them a bare key with a digit
\* in it, written with an uppercase letter
C13_Witness ==
    /\ Parsed
    /\ Cardinality(DOMAIN urnA.tags) = 2
    /\ \E k \in DOMAIN urnA.tags :
          /\ urnA.tags[k] = Star
          /\ \E i \in 1..Len(k) : k[i] \in Digits
    /\ \E i \in 1..Len(input) : input[i] \in UpperLetters

\* the lowercase form of a string, by character code
LowerOf(s) ==
    [i \in 1..Len(s) |->
        IF s[i] \in UpperLetters
        THEN CHOOSE c \in LowerLetters : CharCode(c) = CharCode(s[i]) + 32
        ELSE s[i]]

\* the position of the first = in s
FirstEq(s) == CHOOSE i \in 1..Len(s) : s[i] = "=" /\ \A j \in 1..(i - 1) : s[j] # "="

\* the input is prefix:KEY=VALUE, one unquoted entry
UnquotedForm ==
    /\ QuoteFree(input)
    /\ Len(Entries(input)) = 1
    /\ \E i \in 1..Len(Entries(input)[1]) : Entries(input)[1][i] = "="

\* the input is prefix:KEY="VALUE", one quoted entry without escapes
QuotedForm ==
    LET b == TagListOf(input)
    IN  /\ \E i \in 1..Len(b) : b[i] = "="
        /\ FirstEq(b) > 1
        /\ \A i \in 1..(FirstEq(b) - 1) : b[i] # ";"
        /\ Len(b) >= FirstEq(b) + 3
        /\ b[FirstEq(b) + 1] = "\""
        /\ b[Len(b)] = "\""
        /\ \A i \in (FirstEq(b) + 2)..(Len(b) - 1) : b[i] \notin {"\"", "\\"}

EntryKey(e) == SubSeq(e, 1, FirstEq(e) - 1)

UnquotedValue(e) == SubSeq(e, FirstEq(e) + 1, Len(e))

QuotedValue(e) == SubSeq(e, FirstEq(e) + 2, Len(e) - 1)

PrefixText(s) == SubSeq(s, 1, Len(s) - Len(TagListOf(s)) - 1)

OneTag(key, value) == [k \in {key} |-> value]

\* C15: the prefix and the keys are stored lowercased, an unquoted value is
\* stored lowercased character by character, a quoted value keeps its case;
\* so p:K=VAL has key k with value val, p:k="VAL" has value VAL, and the two
\* are not Equal and match in neither direction.
C15_CaseLaws ==
    /\ (Parsed /\ UnquotedForm) =>
          LET e == Entries(input)[1]
          IN  /\ urnA.prefix = LowerOf(PrefixText(input))
              /\ urnA.tags = OneTag(LowerOf(EntryKey(e)), LowerOf(UnquotedValue(e)))
    /\ (Parsed /\ QuotedForm) =>
          LET e == TagListOf(input)
              lower == TaggedUrn(urnA.prefix,
                                 OneTag(LowerOf(EntryKey(e)), LowerOf(QuotedValue(e))))
          IN  /\ urnA.prefix = LowerOf(PrefixText(input))
              /\ urnA.tags = OneTag(LowerOf(EntryKey(e)), QuotedValue(e))
              /\ (\E i \in 1..Len(QuotedValue(e)) : QuotedValue(e)[i] \in UpperLetters) =>
                    /\ ~Equals(urnA, lower)
                    /\ ~Equals(lower, urnA)
                    /\ ~Matches(urnA, lower).val
                    /\ ~Matches(lower, urnA).val

\* P:A="A" was parsed: uppercase in the prefix, in the key and in a quoted value
C15_Witness ==
    /\ Parsed /\ QuotedForm
    /\ \E i \in 1..Len(PrefixText(input)) : PrefixText(input)[i] \in UpperLetters
    /\ \E i \in 1..Len(EntryKey(TagListOf(input))) :
          EntryKey(TagListOf(input))[i] \in UpperLetters
    /\ \E i \in 1..Len(QuotedValue(TagListOf(input))) :
          QuotedValue(TagListOf(input))[i] \in UpperLetters

\* s before t in lexicographic order of character codes
LexLess(s, t) ==
    \E i \in 1..(Len(t)) :
        /\ \A j \in 1..(i - 1) : j <= Len(s) /\ s[j] = t[j]
        /\ (i > Len(s) \/ CharCode(s[i]) < CharCode(t[i]))

HasEq(e) == \E i \in 1..Len(e) : e[i] = "="

\* the key of an entry: the text before its =, or all of it
KeyOf(e) == IF HasEq(e) THEN EntryKey(e) ELSE e

RECURSIVE JoinWith(_, _)
JoinWith(es, sep) ==
    IF es = <<>> THEN <<>>
    ELSE IF Len(es) = 1 THEN es[1]
    ELSE es[1] \o sep \o JoinWith(Tail(es), sep)

ReverseSeq(es) == [i \in 1..Len(es) |-> es[Len(es) + 1 - i]]

\* the entries of the input in reverse order, with a leading ;, an empty
\* entry between every two and a trailing ;
Reordered ==
    PrefixText(input) \o <<":", ";">>
    \o JoinWith(ReverseSeq(Entries(input)), <<";", ";">>) \o <<";">>

\* the entries of the canonical text of u
CanonEntries(u) == SplitOn(TagListOf(ToString(u)), ";")

\* C16: an accepted input and the same entries in another order, with empty
\* entries and a trailing ;, parse to URNs that are Equal with the same
\* ToString and Hash; ToString is the prefix and a colon, then one entry per
\* key in strictly ascending order joined by ; without a trailing ;, a bare
\* key for the value *, and nothing for an empty tag set.
C16_CanonicalForm ==
    /\ (Parsed /\ QuoteFree(input)) =>
          LET again == NewTaggedUrnFromString(Reordered)
          IN  /\ again.err = NoError
              /\ Equals(urnA, again.val)
              /\ ToString(again.val) = ToString(urnA)
              /\ Hash(again.val) = Hash(urnA)
    /\ Parsed =>
          LET text == ToString(urnA)
          IN  /\ DOMAIN urnA.tags = {} => text = urnA.prefix \o <<":">>
              /\ text[Len(text)] # ";"
              /\ QuoteFree(text) =>
                    LET es == CanonEntries(urnA)
                    IN  /\ DOMAIN urnA.tags # {} => Len(es) = Cardinality(DOMAIN urnA.tags)
                        /\ \A i \in 1..Len(es) :
                              es[i] # <<>> =>
                                 /\ KeyOf(es[i]) \in DOMAIN urnA.tags
                                 /\ HasEq(es[i]) = (urnA.tags[KeyOf(es[i])] # Star)
                        /\ \A i, j \in 1..Len(es) :
                              i < j => LexLess(KeyOf(es[i]), KeyOf(es[j]))

\* two bare keys, given in descending order with an empty entry between them
C16_Witness ==
    /\ Parsed /\ QuoteFree(input)
    /\ Len(Entries(input)) = 2
    /\ Len(SplitOn(TagListOf(input), ";")) > 2
    /\ LexLess(LowerOf(KeyOf(Entries(input)[2])), LowerOf(KeyOf(Entries(input)[1])))
    /\ Cardinality(DOMAIN urnA.tags) = 2
    /\ \E k \in DOMAIN urnA.tags : urnA.tags[k] = Star

HasColon(s) == \E i \in 1..Len(s) : s[i] = ":"

\* the input with the text before its first colon in uppercase
UpperPrefix(s) ==
    [i \in 1..Len(s) |->
        IF i <= Len(PrefixText(s)) /\ s[i] \in LowerLetters
              /\ \E c \in UpperLetters : CharCode(c) + 32 = CharCode(s[i])
        THEN CHOOSE c \in UpperLetters : CharCode(c) + 32 = CharCode(s[i])
        ELSE s[i]]

\* C20: the empty string fails with ErrorInvalidFormat, a non-empty input
\* without a colon with ErrorMissingPrefix, an input that starts with a colon
\* with ErrorEmptyPrefix; otherwise the prefix is the text before the first
\* colon, lowercased, and the same input with another prefix case parses to
\* an Equal URN.  A failed parse returns a nil URN.
C20_PrefixValidation ==
    op = "NewTaggedUrnFromString" =>
        /\ input = <<>> => result.err = ErrorInvalidFormat
        /\ (input # <<>> /\ ~HasColon(input)) => result.err = ErrorMissingPrefix
        /\ (input # <<>> /\ input[1] = ":") => result.err = ErrorEmptyPrefix
        /\ result.err # NoError => IsNil(result.val)
        /\ result.err = NoError =>
              /\ ~IsNil(urnA)
              /\ urnA.prefix = LowerOf(PrefixText(input))
              /\ NewTaggedUrnFromString(UpperPrefix(input)).err = NoError
              /\ Equals(urnA, NewTaggedUrnFromString(UpperPrefix(input)).val)
              /\ Equals(NewTaggedUrnFromString(UpperPrefix(input)).val, urnA)

\* an accepted input with a lowercase prefix and a colon in a key
C20_Witness ==
    /\ Parsed
    /\ UpperPrefix(input) # input
    /\ HasColon(TagListOf(input))
    /\ DOMAIN urnA.tags # {}

(***************************************************************************)
(* Properties of references (specification SpecHeap)                       *)
(***************************************************************************)
MutatorOps == {"WithTag", "WithoutTag", "WithWildcardTag", "Subset", "Merge"}

\* every URN that exists before a step reads the same after it
UrnsKept ==
    \A i \in 1..Len(objs) : Deref(Memory(heap', objs'), i) = Deref(Memory(heap, objs), i)

\* C11: a call of WithTag, WithoutTag, WithWildcardTag, Subset or Merge leaves
\* its receiver, its argument and every other existing URN with the prefix
\* and tags they had before the call, so that no chain of mutators applied to
\* a returned URN shows up in the URN it came from.
C11_MutatorsKeepReceiver == [][op' \in MutatorOps => UrnsKept]_vars

\* a mutator applied to the URN another call returned, giving a third URN
\* that differs from both
C11_Witness ==
    /\ op \in MutatorOps
    /\ result.val.recv = 2
    /\ result.val.out = 3
    /\ Deref(Mem, 3) # Deref(Mem, 2)
    /\ Deref(Mem, 3) # Deref(Mem, 1)
    /\ Deref(Mem, 2) # Deref(Mem, 1)

\* C12: a URN returned by a constructor is immutable and shares no mutable
\* state: no later call on a builder, on the caller's maps or on other URNs
\* changes the tags of a URN that exists.
C12_UrnsImmutable == [][UrnsKept]_vars

(***************************************************************************)
(* Properties of the programmatic constructors (specification SpecApi)     *)
(***************************************************************************)
\* the data-model invariants of a URN
WellFormed(u) ==
    /\ u.prefix # <<>>
    /\ \A k \in DOMAIN u.tags :
          /\ k # <<>>
          /\ \A i \in 1..Len(k) : k[i] \in KeyCharset
          /\ ~AllDigits(k)
          /\ u.tags[k] # <<>>

\* C14: every URN reachable through Empty, NewTaggedUrnFromTags, the builder
\* and the mutators, whatever strings they are given, has a non-empty prefix,
\* non-empty non-numeric keys from the key charset and non-empty values, and
\* its ToString is accepted by NewTaggedUrnFromString.
C14_ApiInvariants ==
    ~IsNil(urnA) =>
        /\ WellFormed(urnA)
        /\ NewTaggedUrnFromString(ToString(urnA)).err = NoError

(***************************************************************************)
(* Properties of the error kinds of the tokenizer                          *)
(***************************************************************************)
\* the pieces of the tag list between its semicolons
Pieces == SplitOn(TagListOf(input), ";")

\* the input up to, and without, its piece i
InputBefore(i) ==
    PrefixText(input) \o <<":">> \o JoinWith(SubSeq(Pieces, 1, i - 1), <<";">>)

\* piece i has = where its key is expected
EmptyKeyAt(i) == Pieces[i] # <<>> /\ Pieces[i][1] = "="

\* piece i is a key followed by = and nothing more
EmptyValueAt(i) ==
    LET e == Pieces[i]
    IN  /\ Len(e) >= 2
        /\ e[Len(e)] = "="
        /\ \A j \in 1..(Len(e) - 1) : e[j] \in KeyCharset

\* C21: an entry with an empty key (= where a key is expected, as in p:=v or
\* p:a=1;=v) or an empty value (a key, =, then ; or the end of the input)
\* makes the parse fail with ErrorEmptyTag, when the entries before it are
\* accepted.
C21_EmptyTag ==
    (/\ op = "NewTaggedUrnFromString"
     /\ HasColon(input) /\ input[1] # ":"
     /\ QuoteFree(input)
     /\ \E i \in 1..Len(Pieces) :
           /\ EmptyKeyAt(i) \/ EmptyValueAt(i)
           /\ NewTaggedUrnFromString(InputBefore(i)).err = NoError) =>
        /\ result.err = ErrorEmptyTag
        /\ IsNil(result.val)

(***************************************************************************)
(* Properties of the tokenizer steps (specifications SpecScan and          *)
(* SpecScanFair)                                                           *)
(***************************************************************************)
Returned == op = "NewTaggedUrnFromString"

\* the characters an unquoted value may be made of
ValueCharset == KeyCharset \cup {"*", "?", "!"}

\* a bare key
BareShape(e) ==
    /\ e # <<>>
    /\ \A i \in 1..Len(e) : e[i] \in KeyCharset
    /\ ~AllDigits(e)

\* key=value with an unquoted value
PlainShape(e) ==
    /\ HasEq(e)
    /\ BareShape(EntryKey(e))
    /\ UnquotedValue(e) # <<>>
    /\ \A i \in 1..Len(UnquotedValue(e)) : UnquotedValue(e)[i] \in ValueCharset

\* key="value" with a quoted value without escapes or semicolons
QuotedShape(e) ==
    /\ HasEq(e)
    /\ BareShape(EntryKey(e))
    /\ Len(e) >= FirstEq(e) + 3
    /\ e[FirstEq(e) + 1] = "\""
    /\ e[Len(e)] = "\""
    /\ \A i \in (FirstEq(e) + 2)..(Len(e) - 1) : e[i] \notin {"\"", "\\", ";"}

WellFormedEntry(e) == e = <<>> \/ BareShape(e) \/ PlainShape(e) \/ QuotedShape(e)

\* entries i < j are well formed, like those before them, and have the same
\* key up to letter case
DuplicateAt(i, j) ==
    /\ i < j
    /\ \A m \in 1..j : WellFormedEntry(Pieces[m])
    /\ Pieces[i] # <<>>
    /\ Pieces[j] # <<>>
    /\ LowerOf(KeyOf(Pieces[i])) = LowerOf(KeyOf(Pieces[j]))

HasDuplicate ==
    /\ HasColon(input)
    /\ input[1] # ":"
    /\ \E i, j \in 1..Len(Pieces) : DuplicateAt(i, j)

\* the tags committed so far keep their values in the step
TagsKept ==
    op = "scanning" =>
        \A k \in DOMAIN scan.tags : k \in DOMAIN scan'.tags /\ scan'.tags[k] = scan.tags[k]

\* C22: an input with two entries whose keys are equal after lowercasing,
\* be they bare, key=value or quoted, returns nil and ErrorDuplicateKey;
\* and no step of a parse assigns a key that is already in the tag map.
C22_DuplicateKeys ==
    /\ []((Returned /\ HasDuplicate) => result = Ret(NilUrn, ErrorDuplicateKey))
    /\ [][TagsKept]_vars

\* a bare key and a quoted entry of the same key in another case, rejected
C22_Witness ==
    /\ Returned
    /\ HasDuplicate
    /\ \E i \in 1..Len(Pieces) : QuotedShape(Pieces[i])
    /\ \E i \in 1..Len(input) : input[i] \in UpperLetters
    /\ result.err = ErrorDuplicateKey

(***************************************************************************)
(* Properties of quoted values in the tokenizer                            *)
(***************************************************************************)
\* where the first n characters of the tag list s leave a reader that only
\* follows the quotes: "out" of a quoted value, "in" one, right after a
\* backslash in one ("esc"), or right after the closing quote ("closed")
RECURSIVE QuoteMode(_, _)
QuoteMode(s, n) ==
    IF n = 0 THEN "out"
    ELSE LET before == QuoteMode(s, n - 1)
         IN  CASE before = "out" ->
                    IF s[n] = "\"" /\ n > 1 /\ s[n - 1] = "=" THEN "in" ELSE "out"
               [] before = "in" ->
                    IF s[n] = "\"" THEN "closed"
                    ELSE IF s[n] = "\\" THEN "esc"
                    ELSE "in"
               [] before = "esc" -> "in"
               [] before = "closed" -> "out"

\* the quote mode of the characters the running parse has consumed
ModeNow == QuoteMode(TagsPart(input), scan.pos)

AtEnd == scan.pos >= Len(TagsPart(input))

Cur == TagsPart(input)[scan.pos + 1]

FailsWith(code) == op' = "NewTaggedUrnFromString" /\ result' = Ret(NilUrn, code)

QuotingErrors == {ErrorInvalidEscapeSequence, ErrorUnterminatedQuote, ErrorInvalidCharacter}

QuotedStep ==
    op = "scanning" =>
        /\ (ModeNow = "esc" /\ ~AtEnd /\ Cur \notin {"\"", "\\"}) =>
               FailsWith(ErrorInvalidEscapeSequence)
        /\ (ModeNow = "esc" /\ ~AtEnd /\ Cur \in {"\"", "\\"}) =>
               /\ op' = "scanning"
               /\ scan'.currentValue = Append(scan.currentValue, Cur)
        /\ (ModeNow \in {"in", "esc"} /\ AtEnd) => FailsWith(ErrorUnterminatedQuote)
        /\ (ModeNow = "closed" /\ ~AtEnd /\ Cur # ";") => FailsWith(ErrorInvalidCharacter)
        /\ (ModeNow = "closed" /\ (AtEnd \/ Cur = ";")) =>
               ~(op' = "NewTaggedUrnFromString" /\ result'.err \in QuotingErrors)

\* C23: in a quoted value a backslash followed by a character other than
\* " or \ returns ErrorInvalidEscapeSequence; an input that ends in a
\* quoted value or right after a backslash in one returns
\* ErrorUnterminatedQuote; after the closing quote a character other than ;
\* returns ErrorInvalidCharacter, while ; and the end of input are accepted.
C23_QuotingErrors == [][QuotedStep]_vars

\* a parse that returned on the character after a backslash in a quoted value
C23_Witness ==
    /\ Returned
    /\ result = Ret(NilUrn, ErrorInvalidEscapeSequence)
    /\ scan # NotScanning
    /\ ModeNow = "esc"
    /\ TagsPart(input)[scan.pos + 1] \notin {"\"", "\\"}

(***************************************************************************)
(* Properties of the end of input                                          *)
(***************************************************************************)
Succeeds == op' = "NewTaggedUrnFromString" /\ result'.err = NoError

\* the parse returns the URN of the input's prefix with the tags committed
\* so far and the tag key = value
SucceedsWith(key, value) ==
    Succeeds => result'.val = TaggedUrn(PrefixPart(input), SetTag(scan.tags, key, value))

EndOfInputStep ==
    (op = "scanning" /\ AtEnd) =>
        /\ op' = "NewTaggedUrnFromString"
        /\ Succeeds => scan.state \in {stateExpectingKey, stateInKey,
                                       stateInUnquotedValue, stateExpectingSemiOrEnd}
        /\ scan.state = stateExpectingKey =>
               /\ Succeeds
               /\ result'.val = TaggedUrn(PrefixPart(input), scan.tags)
        /\ scan.state \in {stateInUnquotedValue, stateExpectingSemiOrEnd} =>
               SucceedsWith(scan.currentKey, scan.currentValue)
        /\ scan.state = stateInKey => SucceedsWith(scan.currentKey, Star)
        /\ scan.state \in {stateInQuotedValue, stateInQuotedValueEscape} =>
               FailsWith(ErrorUnterminatedQuote)
        /\ scan.state = stateExpectingValue => FailsWith(ErrorEmptyTag)

\* a step on a character other than ; leaves the tag map as it is
CommitOnlyOnSemicolon ==
    (op = "scanning" /\ ~AtEnd /\ Cur # ";") => scan'.tags = scan.tags

\* C24: at the end of input the parse succeeds only from ExpectingKey (with
\* the tags committed so far), from InUnquotedValue or ExpectingSemiOrEnd
\* (the pending tag committed) or from InKey (the pending key committed with
\* the value *); from InQuotedValue and InQuotedValueEscape it returns
\* ErrorUnterminatedQuote and from ExpectingValue ErrorEmptyTag; and the tag
\* map changes only in a step on ; or at the end of input.
C24_EndOfInput == [][EndOfInputStep /\ CommitOnlyOnSemicolon]_vars

\* a parse that committed a tag on a ; and a bare key at the end of input
C24_Witness ==
    /\ Returned
    /\ result.err = NoError
    /\ scan # NotScanning
    /\ scan.state = stateInKey
    /\ Cardinality(DOMAIN result.val.tags) = 2
    /\ \E k \in DOMAIN result.val.tags : result.val.tags[k] = Star
    /\ \E k \in DOMAIN result.val.tags : result.val.tags[k] # Star

(***************************************************************************)
(* Compatibility as joint satisfiability                                   *)
(***************************************************************************)
\* the values that are none of the three sentinels
ExactValues == ValueArgs \ {Star, Quest, Bang}

\* the URNs of prefix p whose tags all have exact values
Instances(p) ==
    {TaggedUrn(p, t) :
        t \in UNION {[ks -> ExactValues] : ks \in SUBSET {LowerOf(k) : k \in KeyArgs}}}

\* some instance matches both patterns
JointlySatisfiable(a, b) ==
    \E i \in Instances(a.prefix) : Matches(i, a).val /\ Matches(i, b).val

\* C25: for URNs a and b of the same prefix a.IsCompatibleWith(b) is true
\* if and only if some URN of that prefix whose tags all have exact values
\* matches a and matches b.
C25_JointSatisfiability ==
    (op = "IsCompatibleWith" /\ ~IsNil(urnB) /\ urnA.prefix = urnB.prefix) =>
        /\ result.err = NoError
        /\ result.val <=> JointlySatisfiable(urnA, urnB)

\* a compatible pair: a wildcard against a value, and must-not-have twice
C25_Witness ==
    /\ op = "IsCompatibleWith"
    /\ ~IsNil(urnB)
    /\ urnA.prefix = urnB.prefix
    /\ DOMAIN urnA.tags = {<<"a">>, <<"b">>}
    /\ DOMAIN urnB.tags = {<<"a">>, <<"b">>}
    /\ urnA.tags[<<"a">>] = Star
    /\ urnB.tags[<<"a">>] = <<"v">>
    /\ urnA.tags[<<"b">>] = Bang
    /\ urnB.tags[<<"b">>] = Bang
    /\ result.val
    /\ JointlySatisfiable(urnA, urnB)

(***************************************************************************)
(* Matching and compatibility                                              *)
(***************************************************************************)
\* C28: for URNs i and p of the same prefix, i.Matches(p) true implies
\* i.IsCompatibleWith(p) true; and u.Matches(u) is true for every URN u.
C28_MatchesImpliesCompatible ==
    /\ (op = "Matches" /\ SamePrefixPair /\ result.val = TRUE) =>
           IsCompatibleWith(urnA, urnB) = Ret(TRUE, NoError)
    /\ (op = "IsCompatibleWith" /\ SamePrefixPair /\ Matches(urnA, urnB).val = TRUE) =>
           result = Ret(TRUE, NoError)
    /\ (op = "Matches" /\ urnA = urnB) => result = Ret(TRUE, NoError)

\* a matching pair of different URNs: the instance's wildcard against the
\* pattern's value, and a tag the pattern forbids and the instance lacks
C28_Witness ==
    /\ op = "Matches"
    /\ SamePrefixPair
    /\ urnA # urnB
    /\ result.val = TRUE
    /\ \E k \in DOMAIN urnA.tags \cap DOMAIN urnB.tags :
          urnA.tags[k] = Star /\ urnB.tags[k] \in ExactValues
    /\ \E k \in DOMAIN urnB.tags \ DOMAIN urnA.tags : urnB.tags[k] = Bang
    /\ IsCompatibleWith(urnA, urnB).val = TRUE

(***************************************************************************)
(* Properties of the key arguments                                         *)
(***************************************************************************)
\* the step is the call WithWildcardTag(key) on the URN the caller holds
CallsWithWildcardTag(key) ==
    /\ ~IsNil(urnA)
    /\ op' = "WithWildcardTag"
    /\ urnA' = WithWildcardTag(urnA, key)

\* the step is the call Subset([k1, k2]) on the URN the caller holds
CallsSubset(k1, k2) ==
    /\ ~IsNil(urnA)
    /\ op' = "Subset"
    /\ urnA' = Subset(urnA, <<k1, k2>>)

\* WithTag and WithoutTag agree with GetTag and HasTag on the key argument
LoweringStep ==
    /\ \A key \in ApiKeys, value \in ApiValues :
          (~IsNil(urnA) /\ op' = "WithTag" /\ urnA' = WithTag(urnA, key, value)) =>
              HasTag(urnA', key, value)
    /\ \A key \in ApiKeys :
          (~IsNil(urnA) /\ op' = "WithoutTag" /\ urnA' = WithoutTag(urnA, key)) =>
              ~GetTag(urnA', key).exists

KeyArgumentStep ==
    /\ LoweringStep
    /\ \A key \in ApiKeys :
          (CallsWithWildcardTag(key) /\ GetTag(urnA, key).exists) =>
              GetTag(urnA', key) = [value |-> Star, exists |-> TRUE]
    /\ \A k1, k2 \in ApiKeys :
          CallsSubset(k1, k2) =>
              \A key \in {k1, k2} :
                  GetTag(urnA, key).exists => GetTag(urnA', key) = GetTag(urnA, key)

\* C26: whenever GetTag(key) reports the tag, WithWildcardTag(key) returns a
\* URN whose value for that tag is * and Subset(keys) with key among keys
\* keeps the tag, in whatever letter case the key argument is written.
C26_KeyArgumentCase == [][KeyArgumentStep]_vars

(***************************************************************************)
(* Properties of the JSON methods (specification SpecJson)                 *)
(***************************************************************************)
\* the payload of the call is a JSON string literal
IsJsonString(data) ==
    /\ jsonUnmarshal(data).ok
    /\ jsonTrim(data) # <<"n", "u", "l", "l">>

UnmarshalStep ==
    op' = "UnmarshalJSON" =>
        LET parsed == NewTaggedUrnFromString(jsonUnmarshal(input').s)
        IN  /\ ~IsJsonString(input') =>
                 /\ result'.err # NoError
                 /\ urnB' = urnB
            /\ (IsJsonString(input') /\ parsed.err # NoError) =>
                 /\ result'.err = parsed.err
                 /\ urnB' = urnB
            /\ result'.err = NoError =>
                 /\ IsJsonString(input')
                 /\ parsed.err = NoError
                 /\ Equals(urnB', parsed.val)

\* the receiver is unmarshalled from the bytes urnA was marshalled to
RoundTripStep ==
    (op = "MarshalJSON" /\ op' = "UnmarshalJSON") =>
        /\ result'.err = NoError
        /\ Equals(urnB', urnA)

\* C27: UnmarshalJSON on a payload that is not a JSON string, or whose
\* string does not parse, returns an error (the parser's in the second
\* case) and leaves the receiver's prefix and tags as they were; when it
\* succeeds the receiver Equals the URN parsed from the string; and
\* unmarshalling the bytes a parsed URN u marshals to gives a URN that
\* Equals u.
C27_JsonAllOrNothing == [][UnmarshalStep /\ RoundTripStep]_vars

(***************************************************************************)
(* Termination of the tokenizer (specification SpecScanFair)               *)
(***************************************************************************)
\* a step of the loop either returns or moves to the next character
ForwardStep ==
    op = "scanning" =>
        \/ op' = "NewTaggedUrnFromString"
        \/ /\ op' = "scanning"
           /\ ~AtEnd
           /\ scan'.pos = scan.pos + 1

\* the position never passes the end of the tag list
InsideInput == op = "scanning" => scan.pos <= Len(TagsPart(input))

\* a URN and no error, or no URN and an error
OneOutcome ==
    \/ ~IsNil(result.val) /\ result.err = NoError
    \/ IsNil(result.val) /\ result.err # NoError

\* C29: every call of NewTaggedUrnFromString returns; until then each step
\* of its loop reads the next character of the tag list, once and in
\* order, so that it takes at most one step per character and the
\* end-of-input step; and it returns either a non-nil URN and no error or a
\* nil URN and an error.
C29_SinglePass ==
    /\ <>Returned
    /\ [][ForwardStep]_vars
    /\ []InsideInput
    /\ [](Returned => OneOutcome)

\* a parse that read the whole of a five-character tag list and returned a
\* URN of two tags
C29_Witness ==
    /\ Returned
    /\ scan # NotScanning
    /\ scan.pos = Len(TagsPart(input))
    /\ scan.pos >= 5
    /\ result.err = NoError
    /\ Cardinality(DOMAIN result.val.tags) = 2

(***************************************************************************)
(* Properties of the canonical string (specification SpecCanon)            *)
(***************************************************************************)
\* the same prefix and the same tag map
SameUrn(a, b) ==
    /\ a.prefix = b.prefix
    /\ DOMAIN a.tags = DOMAIN b.tags
    /\ \A k \in DOMAIN a.tags : a.tags[k] = b.tags[k]

\* C30: for two parsed URNs a and b, a.ToString() = b.ToString() if and
\* only if a.Equals(b); Equal URNs have the same canonical string and the
\* same Hash, and URNs that are not Equal have different canonical strings.
C30_CanonicalIdentity ==
    /\ op = "ToString" => ((result.val[1] = result.val[2]) <=> Equals(urnA, urnB))
    /\ op = "Equals" =>
           /\ result.val <=> SameUrn(urnA, urnB)
           /\ result.val <=> (ToString(urnA) = ToString(urnB))
    /\ (op = "Hash" /\ Equals(urnA, urnB)) => result.val[1] = result.val[2]

\* two Equal URNs with a quoted value and the one canonical string
C30_Witness ==
    /\ op = "ToString"
    /\ Equals(urnA, urnB)
    /\ result.val[1] = result.val[2]
    /\ \E k \in DOMAIN urnA.tags : needsQuoting(urnA.tags[k])

====
